---- MODULE Spec2Model ----
(***************************************************************************)
(* Medzo_shop: the transaction engine of the pharmacy platform.            *)
(*                                                                         *)
(* The store is a PostgreSQL database reached through Supabase RPC.  Each  *)
(* RPC (process_sale, submit_review) is a plpgsql function and runs as one *)
(* transaction at READ COMMITTED: its writes stay private to the session   *)
(* until the function returns, an error discards all of them, an UPDATE    *)
(* takes the row lock (a second writer of the row waits for the first to   *)
(* end and then works on the row as committed), and a plain SELECT reads   *)
(* the last committed row without waiting.  The sequence invoice_seq is    *)
(* not transactional: nextval is never undone.                             *)
(***************************************************************************)
EXTENDS Integers, Sequences, FiniteSets, TLC

(* ------------------------------ bounds --------------------------------- *)
\* database sessions (browser tabs / billing terminals) that may overlap
NumSessions == 2
\* process_sale calls issued in one behaviour
MaxSales == 2
\* logical ticks of now() that fall on one calendar day
TicksPerDay == 1

\* submit_review calls issued in one behaviour
MaxReviews == 3
\* lines a prescription holds at most
MaxRxItems == 3

Sessions == 1..NumSessions

(* --------------------------- rows of the store ------------------------- *)
\* rows of public.pharmacies ("pX" is an id with no row)
PharmacyIds == {"p1", "p2", "p3", "p4", "p5"}
\* rows of public.medicines ("mX" is an id with no row)
MedIds == {"m1", "m2", "m3", "m4", "m5", "m6", "m7"}
\* medicines.stock of each listing before the first sale
InitStock == [m \in MedIds |->
  CASE m = "m1" -> 10 [] m = "m2" -> 5 [] m = "m3" -> 11 [] m = "m4" -> 20
    [] m = "m5" -> 7 [] m = "m6" -> 3 [] m = "m7" -> 4]
\* medicines.name ("crocin" is the same name typed in lower case)
MedName == [m \in MedIds |->
  CASE m = "m2" -> "Dolo" [] m = "m4" -> "crocin" [] OTHER -> "Crocin"]
\* medicines.pharmacy_id (m3 and m6 are two batches of one shop)
MedPharmacy == [m \in MedIds |->
  CASE m \in {"m1", "m2"} -> "p1" [] m \in {"m3", "m6"} -> "p2"
    [] m = "m5" -> "p3" [] m = "m4" -> "p4" [] m = "m7" -> "p5"]
\* medicines.selling_price
MedPrice == [m \in MedIds |->
  CASE m = "m1" -> 30 [] m = "m2" -> 20 [] m = "m3" -> 25 [] m = "m4" -> 28
    [] m = "m5" -> 10 [] m = "m6" -> 25 [] m = "m7" -> 26]

\* a nullable value: NULL, or one value
NULL == << >>
Some(x) == <<x>>
Val(o) == o[1]

\* Coordinates: every place of the model lies on the meridian of longitude 0
\* and its latitude is a whole number of steps of 0.1 degree.  For two
\* points of one meridian cos(a)cos(b)cos(0) + sin(a)sin(b) = cos(a - b), so
\* 6371 * acos(...) is 6371 * |a - b| (radians): 11 km (11.119) a step.
KmPerStep == 11
\* pharmacies.verified (p3 has not been verified)
Verified == [ph \in PharmacyIds |-> ph # "p3"]
\* pharmacies.latitude before any shop edits its settings: p1 and p3 stand
\* at step 1, p2 at step 2, p4 far away, p5 was inserted without coordinates
InitLatitude == [ph \in PharmacyIds |->
  CASE ph \in {"p1", "p3"} -> Some(1) [] ph = "p2" -> Some(2)
    [] ph = "p4" -> Some(7) [] ph = "p5" -> NULL]
\* radius_km the clients send (const radius = 50.0; radius_km: 50.0)
RadiusKm == 50

\* CREATE SEQUENCE invoice_seq START 1001
InvoiceSeqStart == 1001

\* Amounts of a bill are counted in half rupees (a listing of 20 rupees
\* costs 40), so that a discount of half a rupee can be typed and
\* Math.round has something to round.
HalfRupees(rupees) == 2 * rupees

\* the selling price a cart line carries: that of its listing when the line
\* was made (a listing whose row is gone was one of 12 rupees)
PriceOf(m) == IF m \in MedIds THEN HalfRupees(MedPrice[m]) ELSE HalfRupees(12)

\* a cart line (CartItem) as the billing screen keeps it up to date:
\* total: item.sellingPrice * quantity
Item(m, q) ==
  [id |-> m, quantity |-> q, sellingPrice |-> PriceOf(m), total |-> PriceOf(m) * q]

RECURSIVE Subtotal(_)
\* cart.forEach(item => subtotal += item.sellingPrice * item.quantity)
Subtotal(items) ==
  IF items = << >> THEN 0
  ELSE Head(items).sellingPrice * Head(items).quantity + Subtotal(Tail(items))

\* Math.round on an amount in half rupees: the nearest whole rupee, a half
\* going up
MathRound(h) == ((h + 1) \div 2) * 2

Max(a, b) == IF a >= b THEN a ELSE b

\* SalesBilling.calculateCartTotals:
\* total = Math.round(Math.max(0, subtotal - discountAmount))
calculateCartTotals(items, discount) ==
  [subtotal |-> Subtotal(items),
   total |-> MathRound(Max(0, Subtotal(items) - discount))]

\* the request handleAddSale sends for the bill handleCompleteSale made
SaleOf(ph, items, discount) ==
  [p_pharmacy_id |-> ph, p_items |-> items,
   p_subtotal |-> calculateCartTotals(items, discount).subtotal,
   p_discount |-> discount,
   p_total |-> calculateCartTotals(items, discount).total]

\* a request for a bill without discount
Call(ph, cart) == SaleOf(ph, cart, 0)

\* the process_sale requests the terminals send (never an empty cart): a
\* plain sale, an oversell (15 of a listing of 10), two carts naming the same
\* two listings in opposite order, a cart naming a medicine whose row is
\* gone, a pharmacy whose row is gone
SaleCalls ==
  { Call("p1", <<Item("m1", 3)>>),
    Call("p2", <<Item("m1", 15)>>),
    Call("p1", <<Item("m1", 3), Item("m2", 3)>>),
    Call("p2", <<Item("m2", 3), Item("m1", 3)>>),
    Call("p1", <<Item("m1", 3), Item("mX", 3)>>),
    Call("pX", <<Item("m1", 3)>>) }

\* rows of public.bookings, all of one consumer
BookingIds == {"b1", "b2", "b3"}
\* bookings.pharmacy_id
BookingPharmacy == [b \in BookingIds |-> "p1"]
\* the stars of the rating dialog the consumer picks
Ratings == {1, 4, 5}

\* a float as the exact fraction num/den in lowest terms
Zero == [num |-> 0, den |-> 1]
NoReviewArgs == [p_booking_id |-> "none", p_pharmacy_id |-> "none", p_rating |-> 0]

NoArgs == [p_pharmacy_id |-> "none", p_items |-> << >>, p_subtotal |-> 0,
           p_discount |-> 0, p_total |-> 0]
NoInvoice == [date |-> 0, seq |-> 0]

\* the shop whose dashboard (billing screen, app orders) the model follows
DeskPharmacy == "p1"
\* its listings
DeskMeds == {m \in MedIds : MedPharmacy[m] = DeskPharmacy}

\* the Settings form before fetchSettings has filled it (useState, line 57)
NoFormData == [verification_status |-> "unverified", drug_license_url |-> FALSE]

VARIABLES
  stock,             \* medicines.stock, committed
  sales,             \* public.sales, committed rows
  sale_items,        \* public.sale_items, committed rows
  invoice_seq,       \* next value nextval('invoice_seq') returns
  uuid_ctr,          \* gen_random_uuid(): next fresh id
  clock,             \* wall clock
  pc,                \* per session: the statement the running RPC is at
  result,            \* per session: outcome of the last RPC
  tx_now,            \* per session: now() of the transaction (its start)
  p_args,            \* per session: arguments of process_sale
  v_sale_id,         \* per session: process_sale local
  v_invoice_number,  \* per session: process_sale local
  item_idx,          \* per session: position of the FOR loop in p_items
  w_sales,           \* per session: uncommitted sales rows
  w_items,           \* per session: uncommitted sale_items rows
  w_stock,           \* per session: uncommitted medicines.stock (rows locked)
  reviews,           \* public.reviews, committed rows
  is_rated,          \* bookings.is_rated, committed
  rating,            \* pharmacies.rating, committed
  review_count,      \* pharmacies.review_count, committed
  bookings,          \* per session: isRated of the bookings the page holds
  r_args,            \* per session: arguments of submit_review
  v_old_rating,      \* per session: submit_review local
  v_old_count,       \* per session: submit_review local
  w_reviews,         \* per session: uncommitted reviews rows
  w_rated,           \* per session: bookings rows updated (locked), uncommitted
  w_pharm,           \* per session: uncommitted pharmacies rows (locked)
  latitude,          \* pharmacies.latitude, committed
  userCoordinates,   \* App: the consumer's coordinates, NULL until located
  nearbyPharmacies,  \* App: the list fetchNearbyStores keeps
  nearbyStoreCount,  \* App: the count fetchNearbyStores keeps
  nearby_call,       \* arguments of the last get_nearby_pharmacies request
  medicine,          \* MedicineDetail: name of the medicine shown, NULL if closed
  sortBy,            \* MedicineDetail: the selected sort key
  stockFilter,       \* MedicineDetail: the selected stock filter
  pharmacies,        \* MedicineDetail: the list fetchPharmacies keeps
  avail_call,        \* arguments of the last get_medicine_availability request
  medicines,         \* App: the listings fetchMedicines keeps
  displayMedicines,  \* Home: the catalogue shown (localMedicines)
  detectedItems,     \* PrescriptionUpload: the medicines of the prescription
  shops,             \* PrescriptionUpload: the shops findShops keeps
  step,              \* PrescriptionUpload: the step of the dialog
  rx_call,           \* arguments of the last find_pharmacies_for_prescription
  profile,           \* profiles.latitude/longitude of the consumer, committed
  cart,              \* SalesBilling: the lines of the bill
  customerName,      \* SalesBilling: the customer name typed
  customerPhone,     \* SalesBilling: the customer phone typed
  discountAmount,    \* SalesBilling: the discount typed, in half rupees
  heldBills,         \* SalesBilling: the bills put on hold, newest first
  processing,        \* SalesBilling: a sale request is under way
  saleData,          \* per session: the bill whose request the session carries
  showSuccess,       \* SalesBilling: the "Sale Completed" page is shown
  inventory,         \* AdminDashboard: stock of the shop's listings, as loaded
  booking_status,    \* bookings.status, as stored and as the dashboard holds it
  verification_status, \* pharmacies.verification_status, committed
  drug_license_url,  \* pharmacies.drug_license_url is set, committed
  formData,          \* per session: the Settings form of the shop owner
  admin_pharmacies,  \* per session: the shops as the administrator loaded them
  reviewShop         \* per session: the shop whose review dialog is open

dbVars == <<stock, sales, sale_items>>
\* what process_sale and its caller work on
saleVars == <<stock, sales, sale_items, invoice_seq, p_args, v_sale_id,
              v_invoice_number, item_idx, w_sales, w_items, w_stock>>
\* the committed tables submit_review writes
rvDbVars == <<reviews, is_rated, rating, review_count>>
\* what submit_review and its caller work on
rvVars == <<reviews, is_rated, rating, review_count, bookings, r_args,
            v_old_rating, v_old_count, w_reviews, w_rated, w_pharm>>
\* the App's view of the shops around the consumer
nearbyVars == <<nearbyPharmacies, nearbyStoreCount, nearby_call>>
\* the MedicineDetail page
detailVars == <<medicine, sortBy, stockFilter, pharmacies, avail_call>>
\* the catalogue of the Home page
catalogVars == <<medicines, displayMedicines>>
\* the PrescriptionUpload dialog
rxVars == <<detectedItems, shops, step, rx_call>>
\* what the read-side queries and their callers work on
readVars == <<latitude, userCoordinates, nearbyVars, detailVars, catalogVars,
              rxVars, profile>>
\* the billing screen of the shop
billVars == <<cart, customerName, customerPhone, discountAmount, heldBills,
              processing, saleData, showSuccess, inventory>>
\* the verification of a shop: its row, the owner's form, the administrator
verifVars == <<verification_status, drug_license_url, formData,
               admin_pharmacies, reviewShop>>
\* what the dashboards of the shop and of the administrator work on
deskVars == <<billVars, booking_status, verifVars>>
vars == <<stock, sales, sale_items, invoice_seq, uuid_ctr, clock, pc, result,
          tx_now, p_args, v_sale_id, v_invoice_number, item_idx,
          w_sales, w_items, w_stock, reviews, is_rated, rating, review_count,
          bookings, r_args, v_old_rating, v_old_count, w_reviews, w_rated,
          w_pharm, latitude, userCoordinates, nearbyPharmacies,
          nearbyStoreCount, nearby_call, medicine, sortBy, stockFilter,
          pharmacies, avail_call, medicines, displayMedicines, detectedItems,
          shops, step, rx_call, profile, cart, customerName, customerPhone,
          discountAmount, heldBills, processing, saleData, showSuccess,
          inventory, booking_status, verification_status, drug_license_url, formData,
          admin_pharmacies, reviewShop>>

(* ------------------------------ helpers -------------------------------- *)
\* to_char(now(), 'YYMMDD')
DateOf(t) == t \div TicksPerDay

\* 'INV-' || to_char(now(), 'YYMMDD') || '-' || nextval('invoice_seq')
InvoiceNumber(t, n) == [date |-> DateOf(t), seq |-> n]

\* the item the FOR loop of session s is at
CurItem(s) == p_args[s].p_items[item_idx[s]]

\* sessions other than s holding the row lock of medicine m
LockHolders(s, m) == {t \in Sessions \ {s} : m \in DOMAIN w_stock[t]}

\* s waits for a row lock that t holds
WaitsFor(s, t) ==
  /\ pc[s] = "sell_item"
  /\ t \in LockHolders(s, CurItem(s).id)

\* the stock a statement of session s finds in the row of medicine m:
\* its own uncommitted write if it made one, else the committed row
StockSeen(s, m) == IF m \in DOMAIN w_stock[s] THEN w_stock[s][m] ELSE stock[m]

\* process_sale calls issued so far (each one reads the clock once)
SalesIssued == clock

\* a sequence that hands out its value without moving on
NextVal_Stuck(n) == n

\* nextval: the sequence moves on by its increment (1)
NextVal(n) == n + 1

Init ==
  /\ stock = InitStock
  /\ sales = {}
  /\ sale_items = {}
  /\ invoice_seq = InvoiceSeqStart
  /\ uuid_ctr = 1
  /\ clock = 0
  /\ pc = [s \in Sessions |-> "idle"]
  /\ result = [s \in Sessions |-> "none"]
  /\ tx_now = [s \in Sessions |-> 0]
  /\ p_args = [s \in Sessions |-> NoArgs]
  /\ v_sale_id = [s \in Sessions |-> 0]
  /\ v_invoice_number = [s \in Sessions |-> NoInvoice]
  /\ item_idx = [s \in Sessions |-> 0]
  /\ w_sales = [s \in Sessions |-> {}]
  /\ w_items = [s \in Sessions |-> {}]
  /\ w_stock = [s \in Sessions |-> << >>]
  /\ reviews = {}
  /\ is_rated = [b \in BookingIds |-> FALSE]
  /\ rating = [ph \in PharmacyIds |-> Zero]
  /\ review_count = [ph \in PharmacyIds |-> 0]
  /\ bookings = [s \in Sessions |-> [b \in BookingIds |-> FALSE]]
  /\ r_args = [s \in Sessions |-> NoReviewArgs]
  /\ v_old_rating = [s \in Sessions |-> Zero]
  /\ v_old_count = [s \in Sessions |-> 0]
  /\ w_reviews = [s \in Sessions |-> {}]
  /\ w_rated = [s \in Sessions |-> {}]
  /\ w_pharm = [s \in Sessions |-> << >>]
  /\ latitude = InitLatitude
  /\ userCoordinates = NULL
  /\ nearbyPharmacies = << >>
  /\ nearbyStoreCount = 0
  /\ nearby_call = NULL
  /\ medicine = NULL
  /\ sortBy = "nearest"
  /\ stockFilter = "all"
  /\ pharmacies = << >>
  /\ avail_call = NULL
  /\ medicines = << >>
  /\ displayMedicines = << >>
  /\ detectedItems = << >>
  /\ shops = << >>
  /\ step = "upload"
  /\ rx_call = NULL
  /\ profile = NULL
  /\ cart = << >>
  /\ customerName = ""
  /\ customerPhone = ""
  /\ discountAmount = 0
  /\ heldBills = << >>
  /\ processing = FALSE
  /\ saleData = [s \in Sessions |-> NULL]
  /\ showSuccess = FALSE
  /\ inventory = [m \in DeskMeds |-> InitStock[m]]
  /\ booking_status = [b \in BookingIds |-> "Pending"]
  /\ verification_status = [ph \in PharmacyIds |->
         IF Verified[ph] THEN "verified" ELSE "unverified"]
  /\ drug_license_url = [ph \in PharmacyIds |-> Verified[ph]]
  /\ formData = [s \in Sessions |-> NoFormData]
  /\ admin_pharmacies = [s \in Sessions |-> << >>]
  /\ reviewShop = [s \in Sessions |-> NULL]

(* ------------------------- process_sale -------------------------------- *)
\* the function call of session s is over: its locals and its private rows go
EndCall(s) ==
  /\ p_args' = [p_args EXCEPT ![s] = NoArgs]
  /\ tx_now' = [tx_now EXCEPT ![s] = 0]
  /\ v_sale_id' = [v_sale_id EXCEPT ![s] = 0]
  /\ v_invoice_number' = [v_invoice_number EXCEPT ![s] = NoInvoice]
  /\ item_idx' = [item_idx EXCEPT ![s] = 0]
  /\ w_sales' = [w_sales EXCEPT ![s] = {}]
  /\ w_items' = [w_items EXCEPT ![s] = {}]
  /\ w_stock' = [w_stock EXCEPT ![s] = << >>]

\* an error that ends the call but keeps the statements already executed
Rollback_KeepsWrites(s, err) ==
  /\ pc' = [pc EXCEPT ![s] = "idle"]
  /\ result' = [result EXCEPT ![s] = err]
  /\ stock' = [m \in MedIds |-> StockSeen(s, m)]
  /\ sales' = sales \cup w_sales[s]
  /\ sale_items' = sale_items \cup w_items[s]
  /\ UNCHANGED clock
  /\ EndCall(s)

\* the transaction of session s ends in an error: every write is discarded
Rollback(s, err) ==
  /\ pc' = [pc EXCEPT ![s] = "idle"]
  /\ result' = [result EXCEPT ![s] = err]
  /\ UNCHANGED <<dbVars, clock>>
  /\ EndCall(s)

\* handleAddSale: supabase.rpc('process_sale', {...}) reaches the server and
\* the transaction opens; now() is fixed here, before any statement runs
StartSale(s, newSale) ==
  /\ pc[s] = "idle"
  /\ SalesIssued < MaxSales
  /\ pc' = [pc EXCEPT ![s] = "nextval"]
  /\ result' = [result EXCEPT ![s] = "none"]
  /\ p_args' = [p_args EXCEPT ![s] = newSale]
  /\ tx_now' = [tx_now EXCEPT ![s] = clock]
  /\ clock' = clock + 1
  /\ UNCHANGED <<dbVars, invoice_seq, uuid_ctr, v_sale_id, v_invoice_number,
                 item_idx, w_sales, w_items, w_stock>>

\* a request is carried by the first connection that is free: sessions are
\* interchangeable, so nothing is lost by not trying the others
FirstIdle(s) ==
  /\ pc[s] = "idle"
  /\ \A t \in Sessions : t < s => pc[t] # "idle"

\* a terminal sends a process_sale request
rpc_process_sale(s, newSale) ==
  /\ UNCHANGED <<rvVars, readVars, deskVars>>
  /\ FirstIdle(s)
  /\ StartSale(s, newSale)

\* v_invoice_number := 'INV-' || to_char(now(),'YYMMDD') || '-' || nextval(..)
AllocInvoice(s) ==
  /\ UNCHANGED <<rvVars, readVars, deskVars>>
  /\ pc[s] = "nextval"
  /\ v_invoice_number' = [v_invoice_number EXCEPT ![s] = InvoiceNumber(tx_now[s], invoice_seq)]
  /\ invoice_seq' = NextVal(invoice_seq)
  /\ pc' = [pc EXCEPT ![s] = "insert_sale"]
  /\ UNCHANGED <<dbVars, uuid_ctr, clock, result, tx_now, p_args,
                 v_sale_id, item_idx, w_sales, w_items, w_stock>>

\* INSERT INTO sales (...) RETURNING id INTO v_sale_id
InsertSale(s) ==
  /\ UNCHANGED <<rvVars, readVars, deskVars>>
  /\ pc[s] = "insert_sale"
  /\ IF p_args[s].p_pharmacy_id \in PharmacyIds
     THEN /\ v_sale_id' = [v_sale_id EXCEPT ![s] = uuid_ctr]
          /\ uuid_ctr' = uuid_ctr + 1
          /\ w_sales' = [w_sales EXCEPT ![s] =
                 {[id |-> uuid_ctr,
                   pharmacy_id |-> p_args[s].p_pharmacy_id,
                   invoice_number |-> v_invoice_number[s],
                   subtotal |-> p_args[s].p_subtotal,
                   discount |-> p_args[s].p_discount,
                   total |-> p_args[s].p_total,
                   created_at |-> tx_now[s]]}]
          /\ item_idx' = [item_idx EXCEPT ![s] = 1]
          /\ pc' = [pc EXCEPT ![s] =
                 IF Len(p_args[s].p_items) = 0 THEN "return" ELSE "sell_item"]
          /\ UNCHANGED <<dbVars, clock, result, w_items, w_stock, tx_now, p_args,
                         v_invoice_number>>
     ELSE \* pharmacy_id REFERENCES pharmacies(id)
          /\ Rollback(s, "foreign_key_violation")
          /\ UNCHANGED uuid_ctr
  /\ UNCHANGED invoice_seq

\* a decrement by one unit whatever the line's quantity
Decrement_ByOne(old, q) == old - 1

\* SET stock = stock - (item->>'quantity')::int
Decrement(old, q) == old - q

\* one turn of the FOR loop: INSERT INTO sale_items (...), then
\* UPDATE medicines SET stock = stock - quantity WHERE id = item.id.
\* The inserted row is private to the session, so the turn is one step: it
\* fails at once on a medicine without a row, else it waits for the row lock.
SellItem(s) ==
  /\ UNCHANGED <<rvVars, readVars, deskVars>>
  /\ pc[s] = "sell_item"
  /\ IF CurItem(s).id \in MedIds
     THEN /\ LockHolders(s, CurItem(s).id) = {}
          /\ w_items' = [w_items EXCEPT ![s] = @ \cup
                 {[id |-> <<v_sale_id[s], item_idx[s]>>,
                   sale_id |-> v_sale_id[s],
                   medicine_id |-> CurItem(s).id,
                   quantity |-> CurItem(s).quantity,
                   price |-> CurItem(s).sellingPrice,
                   total |-> CurItem(s).total]}]
          /\ LET m == CurItem(s).id
                 new == Decrement(StockSeen(s, m), CurItem(s).quantity)
             IN  w_stock' = [w_stock EXCEPT ![s] =
                     [x \in (DOMAIN @) \cup {m} |-> IF x = m THEN new ELSE @[x]]]
          /\ IF item_idx[s] < Len(p_args[s].p_items)
             THEN /\ item_idx' = [item_idx EXCEPT ![s] = @ + 1]
                  /\ UNCHANGED pc
             ELSE /\ pc' = [pc EXCEPT ![s] = "return"]
                  /\ UNCHANGED item_idx
          /\ UNCHANGED <<dbVars, clock, result, w_sales, tx_now, p_args,
                         v_sale_id, v_invoice_number>>
     ELSE \* medicine_id REFERENCES medicines(id)
          Rollback(s, "foreign_key_violation")
  /\ UNCHANGED <<invoice_seq, uuid_ctr>>

\* two sessions wait for each other's row lock: the server aborts one
DeadlockAbort(s) ==
  /\ UNCHANGED <<rvVars, readVars, deskVars>>
  /\ \E t \in Sessions \ {s} : WaitsFor(s, t) /\ WaitsFor(t, s)
  /\ Rollback(s, "deadlock_detected")
  /\ UNCHANGED <<invoice_seq, uuid_ctr>>

\* RETURN json_build_object(...): the function ends and its writes commit
ReturnSale(s) ==
  /\ UNCHANGED <<rvVars, readVars, deskVars>>
  /\ pc[s] = "return"
  /\ stock' = [m \in MedIds |-> StockSeen(s, m)]
  /\ sales' = sales \cup w_sales[s]
  /\ sale_items' = sale_items \cup w_items[s]
  /\ pc' = [pc EXCEPT ![s] = "idle"]
  /\ result' = [result EXCEPT ![s] = "ok"]
  /\ EndCall(s)
  /\ UNCHANGED <<invoice_seq, uuid_ctr, clock>>

process_sale(s) ==
  \/ AllocInvoice(s)
  \/ InsertSale(s)
  \/ SellItem(s)
  \/ DeadlockAbort(s)
  \/ ReturnSale(s)

Next ==
  \/ \E s \in Sessions, newSale \in SaleCalls : rpc_process_sale(s, newSale)
  \/ \E s \in Sessions : process_sale(s)

Spec == Init /\ [][Next]_vars

\* process_sale requests with lines no billing screen makes (the function is
\* open to every client of the store): a return of 3 units, a line of 0
\* units, a good line followed by a negative one; and a plain sale
MalformedSales ==
  { Call("p1", <<Item("m1", -3)>>),
    Call("p1", <<Item("m2", 0)>>),
    Call("p1", <<Item("m1", 3), Item("m2", -2)>>),
    Call("p1", <<Item("m2", 2)>>) }

NextSaleArgs ==
  \/ \E s \in Sessions, newSale \in MalformedSales : rpc_process_sale(s, newSale)
  \/ \E s \in Sessions : AllocInvoice(s)
  \/ \E s \in Sessions : InsertSale(s)
  \/ \E s \in Sessions : SellItem(s)
  \/ \E s \in Sessions : ReturnSale(s)

\* clients calling process_sale with quantities of any sign
SpecSaleArgs == Init /\ [][NextSaleArgs]_vars

(* ---------------------------- submit_review ---------------------------- *)
RECURSIVE GCD(_, _)
GCD(a, b) == IF b = 0 THEN a ELSE GCD(b, a % b)

\* the fraction n/d (n >= 0, d > 0) in lowest terms
Frac(n, d) == LET g == GCD(n, d) IN [num |-> n \div g, den |-> d \div g]

\* IF v_old_count = 0 THEN p_rating::float
\* ELSE ((v_old_rating * v_old_count) + p_rating) / (v_old_count + 1)
WeightedAverage(old, cnt, r) ==
  IF cnt = 0 THEN Frac(r, 1)
  ELSE Frac(old.num * cnt + r * old.den, old.den * (cnt + 1))

\* submit_review calls issued so far (each one reads the clock once)
ReviewsIssued == clock

\* sessions other than s holding the row lock of booking b
BookingLockHolders(s, b) == {t \in Sessions \ {s} : b \in w_rated[t]}

\* sessions other than s holding the row lock of pharmacy ph
PharmacyLockHolders(s, ph) == {t \in Sessions \ {s} : ph \in DOMAIN w_pharm[t]}

\* the submit_review call of session s is over
EndReviewCall(s) ==
  /\ r_args' = [r_args EXCEPT ![s] = NoReviewArgs]
  /\ tx_now' = [tx_now EXCEPT ![s] = 0]
  /\ v_old_rating' = [v_old_rating EXCEPT ![s] = Zero]
  /\ v_old_count' = [v_old_count EXCEPT ![s] = 0]
  /\ w_reviews' = [w_reviews EXCEPT ![s] = {}]
  /\ w_rated' = [w_rated EXCEPT ![s] = {}]
  /\ w_pharm' = [w_pharm EXCEPT ![s] = << >>]

\* App.fetchConsumerBookings: the page loads the consumer's bookings
fetchConsumerBookings(s) ==
  /\ pc[s] = "idle"
  /\ bookings[s] # is_rated
  /\ bookings' = [bookings EXCEPT ![s] = is_rated]
  /\ UNCHANGED <<deskVars, readVars, saleVars, uuid_ctr, clock, pc, result, tx_now, reviews,
                 is_rated, rating, review_count, r_args, v_old_rating,
                 v_old_count, w_reviews, w_rated, w_pharm>>

\* MyBookings.submitRating: the Rate button shows on a booking the page holds
\* as not rated; a rating of 0 stars is not sent
submitRating(s, b, ratingValue) ==
  /\ pc[s] = "idle"
  /\ ReviewsIssued < MaxReviews
  /\ ~bookings[s][b]
  /\ ratingValue # 0
  /\ r_args' = [r_args EXCEPT ![s] =
         [p_booking_id |-> b, p_pharmacy_id |-> BookingPharmacy[b],
          p_rating |-> ratingValue]]
  /\ tx_now' = [tx_now EXCEPT ![s] = clock]
  /\ clock' = clock + 1
  /\ pc' = [pc EXCEPT ![s] = "rv_insert"]
  /\ result' = [result EXCEPT ![s] = "none"]
  /\ UNCHANGED <<deskVars, readVars, saleVars, uuid_ctr, reviews, is_rated, rating, review_count,
                 bookings, v_old_rating, v_old_count, w_reviews, w_rated,
                 w_pharm>>

\* INSERT INTO reviews (booking_id, pharmacy_id, user_id, rating, comment)
InsertReview(s) ==
  /\ pc[s] = "rv_insert"
  /\ IF /\ r_args[s].p_rating >= 1 /\ r_args[s].p_rating <= 5
        /\ r_args[s].p_pharmacy_id \in PharmacyIds
     THEN /\ w_reviews' = [w_reviews EXCEPT ![s] =
                 {[id |-> uuid_ctr,
                   booking_id |-> r_args[s].p_booking_id,
                   pharmacy_id |-> r_args[s].p_pharmacy_id,
                   rating |-> r_args[s].p_rating,
                   created_at |-> tx_now[s]]}]
          /\ uuid_ctr' = uuid_ctr + 1
          /\ pc' = [pc EXCEPT ![s] = "rv_mark"]
          /\ UNCHANGED <<result, r_args, tx_now, v_old_rating, v_old_count,
                         w_rated, w_pharm>>
     ELSE \* CHECK (rating >= 1 AND rating <= 5), REFERENCES pharmacies(id)
          /\ pc' = [pc EXCEPT ![s] = "idle"]
          /\ result' = [result EXCEPT ![s] = "constraint_violation"]
          /\ EndReviewCall(s)
          /\ UNCHANGED uuid_ctr
  /\ UNCHANGED <<deskVars, readVars, saleVars, clock, rvDbVars, bookings>>

\* UPDATE bookings SET is_rated = true WHERE id = p_booking_id
MarkRated(s) ==
  /\ pc[s] = "rv_mark"
  /\ BookingLockHolders(s, r_args[s].p_booking_id) = {}
  /\ w_rated' = [w_rated EXCEPT ![s] = @ \cup {r_args[s].p_booking_id}]
  /\ pc' = [pc EXCEPT ![s] = "rv_select"]
  /\ UNCHANGED <<deskVars, readVars, saleVars, uuid_ctr, clock, result, tx_now, rvDbVars, bookings,
                 r_args, v_old_rating, v_old_count, w_reviews, w_pharm>>

\* SELECT COALESCE(rating, 0), COALESCE(review_count, 0)
\*   INTO v_old_rating, v_old_count FROM pharmacies WHERE id = p_pharmacy_id
SelectStats(s) ==
  /\ pc[s] = "rv_select"
  /\ v_old_rating' = [v_old_rating EXCEPT ![s] = rating[r_args[s].p_pharmacy_id]]
  /\ v_old_count' = [v_old_count EXCEPT ![s] = review_count[r_args[s].p_pharmacy_id]]
  /\ pc' = [pc EXCEPT ![s] = "rv_update"]
  /\ UNCHANGED <<deskVars, readVars, saleVars, uuid_ctr, clock, result, tx_now, rvDbVars, bookings,
                 r_args, w_reviews, w_rated, w_pharm>>

\* v_new_rating := ...; UPDATE pharmacies SET rating = v_new_rating,
\*   review_count = v_old_count + 1 WHERE id = p_pharmacy_id
UpdateStats(s) ==
  /\ pc[s] = "rv_update"
  /\ PharmacyLockHolders(s, r_args[s].p_pharmacy_id) = {}
  /\ LET ph == r_args[s].p_pharmacy_id
         v_new_rating == WeightedAverage(v_old_rating[s], v_old_count[s], r_args[s].p_rating)
         row == [rating |-> v_new_rating, review_count |-> v_old_count[s] + 1]
     IN  w_pharm' = [w_pharm EXCEPT ![s] =
             [x \in (DOMAIN @) \cup {ph} |-> IF x = ph THEN row ELSE @[x]]]
  /\ pc' = [pc EXCEPT ![s] = "rv_return"]
  /\ UNCHANGED <<deskVars, readVars, saleVars, uuid_ctr, clock, result, tx_now, rvDbVars, bookings,
                 r_args, v_old_rating, v_old_count, w_reviews, w_rated>>

\* END: the function returns, its writes commit, and submitRating marks the
\* booking as rated on the page (setBookings ... isRated: true)
ReturnReview(s) ==
  /\ pc[s] = "rv_return"
  /\ reviews' = reviews \cup w_reviews[s]
  /\ is_rated' = [b \in BookingIds |-> is_rated[b] \/ b \in w_rated[s]]
  /\ rating' = [ph \in PharmacyIds |->
         IF ph \in DOMAIN w_pharm[s] THEN w_pharm[s][ph].rating ELSE rating[ph]]
  /\ review_count' = [ph \in PharmacyIds |->
         IF ph \in DOMAIN w_pharm[s] THEN w_pharm[s][ph].review_count
         ELSE review_count[ph]]
  /\ bookings' = [bookings EXCEPT ![s][r_args[s].p_booking_id] = TRUE]
  /\ pc' = [pc EXCEPT ![s] = "idle"]
  /\ result' = [result EXCEPT ![s] = "ok"]
  /\ EndReviewCall(s)
  /\ UNCHANGED <<deskVars, readVars, saleVars, uuid_ctr, clock>>

submit_review(s) ==
  \/ InsertReview(s)
  \/ MarkRated(s)
  \/ SelectStats(s)
  \/ UpdateStats(s)
  \/ ReturnReview(s)

NextReview ==
  \/ \E s \in Sessions : fetchConsumerBookings(s)
  \/ \E s \in Sessions, b \in BookingIds, r \in Ratings : submitRating(s, b, r)
  \/ \E s \in Sessions : submit_review(s)

\* consumers rating their bookings, calls overlapping freely
SpecReview == Init /\ [][NextReview]_vars

\* submitRating issued while no other call is running
submitRatingAlone(s, b, ratingValue) ==
  /\ \A t \in Sessions : pc[t] = "idle"
  /\ submitRating(s, b, ratingValue)

NextReviewSerial ==
  \/ \E s \in Sessions : fetchConsumerBookings(s)
  \/ \E s \in Sessions, b \in BookingIds, r \in Ratings : submitRatingAlone(s, b, r)
  \/ \E s \in Sessions : submit_review(s)

\* consumers rating their bookings, one call after the other
SpecReviewSerial == Init /\ [][NextReviewSerial]_vars

(* ------------------------------ catalogue ------------------------------ *)
\* position of the entry of unique kept under the key name, 0 if there is none
KeyIndex(unique, name) ==
  IF \E i \in 1..Len(unique) : unique[i].name = name
  THEN CHOOSE i \in 1..Len(unique) : unique[i].name = name
  ELSE 0

\* a comparison that swaps in the dearer listing
Cheaper_Reversed(m, kept) == m.sellingPrice > kept.sellingPrice

\* (m.sellingPrice || 0) < (unique[m.name].sellingPrice || 0)
Cheaper(m, kept) == m.sellingPrice < kept.sellingPrice

RECURSIVE aggregateCatalog(_, _)
\* filtered.forEach(m => {...}) over the listings still to visit; unique holds
\* the entries in the order their keys were first set (Object.values order)
aggregateCatalog(unique, filtered) ==
  IF filtered = << >> THEN unique
  ELSE LET m == Head(filtered)
           i == KeyIndex(unique, m.name)
       IN  IF i = 0
           THEN aggregateCatalog(Append(unique, [m EXCEPT !.availableStores = 1]),
                                 Tail(filtered))
           ELSE LET currentCount == unique[i].availableStores + 1
                IN  IF Cheaper(m, unique[i])
                    THEN aggregateCatalog(
                           [unique EXCEPT ![i] = [m EXCEPT !.availableStores = currentCount]],
                           Tail(filtered))
                    ELSE aggregateCatalog(
                           [unique EXCEPT ![i].availableStores = currentCount],
                           Tail(filtered))

\* the listings of meds held by a shop of the list nearby
NearbyListings(meds, nearby) ==
  LET nearbyIds == {nearby[i].id : i \in 1..Len(nearby)}
      InRange(m) == m.pharmacyId \in nearbyIds
  IN  SelectSeq(meds, InRange)

\* Home: const localMedicines = useMemo(...)
localMedicines(meds, nearby) ==
  IF Len(meds) > 0 /\ Len(nearby) = 0 THEN meds
  ELSE IF Len(nearby) = 0 \/ Len(meds) = 0 THEN << >>
  ELSE aggregateCatalog(<< >>, NearbyListings(meds, nearby))

\* Home: the effect that shows localMedicines, run again whenever the
\* listings or the nearby shops change
Home_effect ==
  displayMedicines' = localMedicines(medicines', nearbyPharmacies')

(* ----------------------------- geo queries ----------------------------- *)
Abs(x) == IF x < 0 THEN -x ELSE x

\* 6371 * acos(least(1.0, greatest(-1.0, cos(radians(user_lat)) * ... )))
\* between two points of the meridian
Distance(user_lat, lat) == KmPerStep * Abs(user_lat - lat)

\* userCoordinates?.lat || 0
LatOrZero(c) == IF c = NULL THEN 0 ELSE Val(c).lat
\* userCoordinates?.lng || 0
LngOrZero(c) == IF c = NULL THEN 0 ELSE Val(c).lng

RECURSIVE OrderBy(_, _)
\* ORDER BY key ASC over the rows S, key[x] being the key of row x: every
\* order of S that is non-decreasing in the key (rows equal on the key come
\* in any order)
OrderBy(S, key) ==
  IF S = {} THEN {<< >>}
  ELSE LET first == {x \in S : \A y \in S : key[x] <= key[y]}
       IN  UNION {{<<x>> \o rest : rest \in OrderBy(S \ {x}, key)} : x \in first}

\* WHERE p.latitude IS NOT NULL AND p.latitude <> 0 AND p.verified = true
Listed(ph) ==
  /\ latitude[ph] # NULL
  /\ Val(latitude[ph]) # 0
  /\ Verified[ph]

\* one row of get_nearby_pharmacies
NearbyRow(ph, user_lat) ==
  [id |-> ph, latitude |-> Val(latitude[ph]),
   distance_km |-> Distance(user_lat, Val(latitude[ph])),
   rating |-> rating[ph], review_count |-> review_count[ph],
   verified |-> Verified[ph]]

\* a ranking that leaves out the comparison with the radius
get_nearby_pharmacies_AnyDistance(user_lat, user_lng, radius_km) ==
  LET sub == {ph \in PharmacyIds : Listed(ph)}
      distance_km == [ph \in sub |-> Distance(user_lat, Val(latitude[ph]))]
  IN  {[i \in 1..Len(sq) |-> NearbyRow(sq[i], user_lat)] :
         sq \in OrderBy(sub, distance_km)}

\* get_nearby_pharmacies(user_lat, user_lng, radius_km): the lists it may return
get_nearby_pharmacies(user_lat, user_lng, radius_km) ==
  LET sub == {ph \in PharmacyIds : Listed(ph)}
      distance_km == [ph \in sub |-> Distance(user_lat, Val(latitude[ph]))]
      within == {ph \in sub : distance_km[ph] <= radius_km}
  IN  {[i \in 1..Len(sq) |-> NearbyRow(sq[i], user_lat)] :
         sq \in OrderBy(within, distance_km)}

\* App.fetchNearbyStores as run with the coordinates c, followed by the
\* effect of Home on the new list
fetchNearbyStores(c) ==
  LET lat == LatOrZero(c)
      lng == LngOrZero(c)
      radius == RadiusKm
  IN  /\ nearby_call' = Some([user_lat |-> lat, user_lng |-> lng, radius_km |-> radius])
      /\ \E data \in get_nearby_pharmacies(lat, lng, radius) :
           IF Len(data) = 0
           THEN IF Len(nearbyPharmacies) > 0
                THEN nearbyPharmacies' = << >> /\ nearbyStoreCount' = 0
                ELSE UNCHANGED <<nearbyPharmacies, nearbyStoreCount>>
           ELSE /\ nearbyStoreCount' = Cardinality({data[i].id : i \in 1..Len(data)})
                /\ nearbyPharmacies' =
                     [i \in 1..Len(data) |->
                        [id |-> data[i].id, latitude |-> data[i].latitude,
                         distance |-> data[i].distance_km, rating |-> data[i].rating,
                         reviewCount |-> data[i].review_count,
                         verified |-> data[i].verified]]
      /\ UNCHANGED medicines
      /\ Home_effect

\* lower(name) of the names the store holds
Lower(name) ==
  CASE name = "Crocin" -> "crocin" [] name = "Dolo" -> "dolo" [] OTHER -> name

\* m.name ILIKE search_name, for a pattern without wildcards
ILike(name, search_name) == Lower(name) = Lower(search_name)

\* one row of get_medicine_availability
AvailRow(m, user_lat) ==
  LET ph == MedPharmacy[m]
  IN  [pharmacy_id |-> ph, latitude |-> Val(latitude[ph]),
       rating |-> rating[ph], review_count |-> review_count[ph],
       price |-> MedPrice[m], stock |-> stock[m],
       distance_km |-> Distance(user_lat, Val(latitude[ph]))]

\* a search that keeps the listings sold out (stock >= 0)
Matches_KeepsSoldOut(m, search_name) ==
  /\ ILike(MedName[m], search_name)
  /\ stock[m] >= 0
  /\ Listed(MedPharmacy[m])

\* the listings a search may return: WHERE m.name ILIKE search_name
\* AND m.stock > 0 AND p.latitude IS NOT NULL AND p.latitude <> 0
\* AND p.verified = true
Matches(m, search_name) ==
  /\ ILike(MedName[m], search_name)
  /\ stock[m] > 0
  /\ Listed(MedPharmacy[m])

\* get_medicine_availability(search_name, user_lat, user_lng, radius_km): the
\* lists it may return (radius_km is not used by the query)
get_medicine_availability(search_name, user_lat, user_lng, radius_km) ==
  LET rows == {m \in MedIds : Matches(m, search_name)}
      distance_km == [m \in rows |-> Distance(user_lat, Val(latitude[MedPharmacy[m]]))]
  IN  {[i \in 1..Len(sq) |-> AvailRow(sq[i], user_lat)] :
         sq \in OrderBy(rows, distance_km)}

\* a threshold that counts a quantity of exactly 10 as in stock
stockStatus_FromTen(qty) ==
  IF qty >= 10 THEN "In Stock" ELSE IF qty > 0 THEN "Low Stock" ELSE "Out of Stock"

\* p.stock > 10 ? 'In Stock' : (p.stock > 0 ? 'Low Stock' : 'Out of Stock')
stockStatus(qty) ==
  IF qty > 10 THEN "In Stock" ELSE IF qty > 0 THEN "Low Stock" ELSE "Out of Stock"

\* rawData.map((p) => ({...}))
MapRow(p) ==
  [id |-> p.pharmacy_id, latitude |-> p.latitude, distance |-> p.distance_km,
   rating |-> p.rating, reviewCount |-> p.review_count, price |-> p.price,
   stock |-> p.stock, stockStatus |-> stockStatus(p.stock)]

\* x || d
OrElse(x, d) == IF x = 0 THEN d ELSE x

\* (a, b) => (a.distance || 99999) - (b.distance || 99999)
CmpNearest(a, b) == OrElse(a.distance, 99999) - OrElse(b.distance, 99999)
\* (a, b) => a.price - b.price
CmpCheapest(a, b) == a.price - b.price
\* (a, b) => b.rating - a.rating, the sign of the difference of two fractions
CmpRating(a, b) == b.rating.num * a.rating.den - a.rating.num * b.rating.den

\* Array.prototype.sort, cmp[i][j] being what the comparator returns for
\* (sq[i], sq[j]): a stable sort, so an element goes after the elements
\* that compare lower and after the equal ones that stood before it
Sort(sq, cmp) ==
  LET n == Len(sq)
      Rank(i) == 1 + Cardinality({j \in 1..n :
                       \/ cmp[j][i] < 0
                       \/ cmp[j][i] = 0 /\ j < i})
  IN  [k \in 1..n |-> sq[CHOOSE i \in 1..n : Rank(i) = k]]

\* the three sorts of fetchPharmacies, one of which applies
SortRows(mapped, key) ==
  LET idx == 1..Len(mapped)
  IN  CASE key = "nearest" ->
             Sort(mapped, [i \in idx |-> [j \in idx |-> CmpNearest(mapped[i], mapped[j])]])
        [] key = "cheapest" ->
             Sort(mapped, [i \in idx |-> [j \in idx |-> CmpCheapest(mapped[i], mapped[j])]])
        [] key = "rating" ->
             Sort(mapped, [i \in idx |-> [j \in idx |-> CmpRating(mapped[i], mapped[j])]])

\* the list fetchPharmacies builds from the rows of the RPC
Shown(rawData, filter, key) ==
  LET mapped == [i \in 1..Len(rawData) |-> MapRow(rawData[i])]
      Keep(p) == p.stockStatus = filter
      kept == IF filter # "all" THEN SelectSeq(mapped, Keep) ELSE mapped
  IN  SortRows(kept, key)

\* MedicineDetail.fetchPharmacies as run for the medicine name with the sort
\* key, the stock filter and the coordinates c
fetchPharmacies(name, key, filter, c) ==
  LET lat == LatOrZero(c)
      lng == LngOrZero(c)
  IN  /\ avail_call' = Some([search_name |-> name, user_lat |-> lat,
                             user_lng |-> lng, radius_km |-> RadiusKm])
      /\ \E data \in get_medicine_availability(name, lat, lng, RadiusKm) :
           pharmacies' = Shown(data, filter, key)

\* the effect of MedicineDetail, which runs when the page is open
MedicineDetail_effect(name, key, filter, c) ==
  IF name = NULL
  THEN UNCHANGED <<pharmacies, avail_call>>
  ELSE fetchPharmacies(Val(name), key, filter, c)

\* latitudes the consumer's device reports
UserLats == {1, 2}
\* names of the catalogue the consumer opens
SearchNames == {"Crocin", "Dolo"}
SortKeys == {"nearest", "cheapest", "rating"}
StockFilters == {"all", "In Stock", "Low Stock"}

\* A longitude is counted in units of 0.0001 degree east of the meridian (a
\* few units shift no distance of the model by a kilometre), a latitude in
\* steps of 0.1 degree, 1000 units each.
UnitsPerStep == 1000
\* Math.abs(prev.lat - lat) > 0.0001 in updateLocationState
UpdateThreshold == 1
\* Math.abs(prev.lat - latitude) > 0.0002 in the callback of watchPosition
WatchThreshold == 2

\* !prev || Math.abs(prev.lat - lat) > t || Math.abs(prev.lng - lng) > t;
\* prevCoordsRef.current is written wherever userCoordinates is set, with the
\* same position, so prev is the position userCoordinates holds
isSignificant(prev, lat, lng, t) ==
  \/ prev = NULL
  \/ prev # NULL /\ Abs(Val(prev).lat - lat) * UnitsPerStep > t
  \/ prev # NULL /\ Abs(Val(prev).lng - lng) > t

\* setUserCoordinates(c): the effects that depend on userCoordinates run again
setUserCoordinates(c) ==
  /\ userCoordinates' = c
  /\ fetchNearbyStores(c)
  /\ MedicineDetail_effect(medicine, sortBy, stockFilter, c)

\* App.updateLocationState, as manualDetectLocation calls it with the
\* position of the device: a position that is significant is kept and saved
\* in the profile of the consumer
updateLocationState(lat, lng) ==
  /\ IF isSignificant(userCoordinates, lat, lng, UpdateThreshold)
     THEN /\ setUserCoordinates(Some([lat |-> lat, lng |-> lng]))
          /\ profile' = Some([lat |-> lat, lng |-> lng])
     ELSE UNCHANGED <<userCoordinates, profile, nearbyVars, catalogVars,
                      pharmacies, avail_call>>
  /\ UNCHANGED <<deskVars, saleVars, rvVars, uuid_ctr, clock, pc, result, tx_now,
                 latitude, medicine, sortBy, stockFilter, rxVars>>

\* App.getIpLocation: the place an IP lookup answers (data.latitude &&
\* data.longitude: an answer with a zero is not used)
getIpLocation(lat, lng) ==
  IF lat # 0 /\ lng # 0
  THEN updateLocationState(lat, lng)
  ELSE UNCHANGED vars

\* the callback startLocationWatch gives to watchPosition: a position that
\* is significant is kept, and is not saved
watchPosition(lat, lng) ==
  /\ IF isSignificant(userCoordinates, lat, lng, WatchThreshold)
     THEN setUserCoordinates(Some([lat |-> lat, lng |-> lng]))
     ELSE UNCHANGED <<userCoordinates, nearbyVars, catalogVars, pharmacies,
                      avail_call>>
  /\ UNCHANGED <<deskVars, profile, saleVars, rvVars, uuid_ctr, clock, pc,
                 result, tx_now, latitude, medicine, sortBy, stockFilter, rxVars>>

\* App.fetchUserProfile (on sign-in, on every change of the auth state and
\* after the consumer edits the profile): the position of the profile is used
fetchUserProfile ==
  /\ IF profile # NULL /\ Val(profile).lat # 0 /\ Val(profile).lng # 0
     THEN setUserCoordinates(profile)
     ELSE UNCHANGED <<userCoordinates, nearbyVars, catalogVars, pharmacies,
                      avail_call>>
  /\ UNCHANGED <<deskVars, profile, saleVars, rvVars, uuid_ctr, clock, pc,
                 result, tx_now, latitude, medicine, sortBy, stockFilter, rxVars>>

\* App: the effect on [userCoordinates, userRole] runs for a consumer who
\* has just signed in
consumerSignedIn ==
  /\ fetchNearbyStores(userCoordinates)
  /\ UNCHANGED <<deskVars, profile, saleVars, rvVars, uuid_ctr, clock, pc, result, tx_now,
                 latitude, userCoordinates, detailVars, rxVars>>

\* App.handleMedicineClick: the detail page of a medicine opens, with its
\* first state, and its effect runs
handleMedicineClick(name) ==
  /\ medicine' = Some(name)
  /\ sortBy' = "nearest"
  /\ stockFilter' = "all"
  /\ fetchPharmacies(name, sortBy', stockFilter', userCoordinates)
  /\ UNCHANGED <<deskVars, profile, saleVars, rvVars, uuid_ctr, clock, pc, result, tx_now,
                 latitude, userCoordinates, nearbyVars, catalogVars, rxVars>>

\* MedicineDetail: setSortBy(key), then the effect
setSortBy(key) ==
  /\ medicine # NULL
  /\ key # sortBy
  /\ sortBy' = key
  /\ fetchPharmacies(Val(medicine), key, stockFilter, userCoordinates)
  /\ UNCHANGED <<deskVars, profile, saleVars, rvVars, uuid_ctr, clock, pc, result, tx_now,
                 latitude, userCoordinates, nearbyVars, medicine, stockFilter,
                 catalogVars, rxVars>>

\* MedicineDetail: setStockFilter(filter), then the effect
setStockFilter(filter) ==
  /\ medicine # NULL
  /\ filter # stockFilter
  /\ stockFilter' = filter
  /\ fetchPharmacies(Val(medicine), sortBy, filter, userCoordinates)
  /\ UNCHANGED <<deskVars, profile, saleVars, rvVars, uuid_ctr, clock, pc, result, tx_now,
                 latitude, userCoordinates, nearbyVars, medicine, sortBy,
                 catalogVars, rxVars>>

\* sales at the counters while consumers search: the whole listing m1 (10
\* of 10), and one unit of m3 (11, then 10)
CounterSales ==
  { Call("p1", <<Item("m1", 10)>>),
    Call("p2", <<Item("m3", 1)>>) }

\* the terminal that sells while consumers search: a search reads committed
\* rows only, so it sees the same stock whether or not sales overlap
CounterSessions == {1}

NextAvail ==
  \/ \E lat \in UserLats : updateLocationState(lat, 0)
  \/ \E name \in SearchNames : handleMedicineClick(name)
  \/ \E key \in SortKeys : setSortBy(key)
  \/ \E filter \in StockFilters : setStockFilter(filter)
  \/ \E s \in CounterSessions, newSale \in CounterSales : rpc_process_sale(s, newSale)
  \/ \E s \in CounterSessions : AllocInvoice(s)
  \/ \E s \in CounterSessions : InsertSale(s)
  \/ \E s \in CounterSessions : SellItem(s)
  \/ \E s \in CounterSessions : ReturnSale(s)

\* consumers searching one medicine while the counters sell
SpecAvail == Init /\ [][NextAvail]_vars

\* latitudes a shop may save: 0 (the form's value for coordinates never
\* set), and a place 44 km from one consumer and 55 km from the other
ShopLats == {0, 6}

\* Settings.handleSave: the owner of shop ph saves the form, latitude included
Settings_handleSave(ph, lat) ==
  /\ latitude[ph] # Some(lat)
  /\ latitude' = [latitude EXCEPT ![ph] = Some(lat)]
  /\ UNCHANGED <<deskVars, profile, saleVars, rvVars, uuid_ctr, clock, pc, result, tx_now,
                 userCoordinates, nearbyVars, detailVars, catalogVars, rxVars>>

NextNearby ==
  \/ consumerSignedIn
  \/ \E lat \in UserLats : updateLocationState(lat, 0)
  \/ \E ph \in PharmacyIds, lat \in ShopLats : Settings_handleSave(ph, lat)

\* a consumer looking for shops nearby while shops move their pin
SpecNearby == Init /\ [][NextNearby]_vars

\* longitudes the consumer's device reports while the consumer walks a
\* street, and the longitude an IP lookup gives for the town
UserLngs == {10, 11, 14}
IpLngs == {0, 30}

NextLocation ==
  \/ \E lat \in UserLats, lng \in UserLngs : watchPosition(lat, lng)
  \/ \E lat \in UserLats, lng \in UserLngs : updateLocationState(lat, lng)
  \/ \E lat \in UserLats, lng \in IpLngs : getIpLocation(lat, lng)
  \/ fetchUserProfile
  \/ \E name \in SearchNames : handleMedicineClick(name)

\* a consumer on the move, located by the device, by hand and by IP
SpecLocation == Init /\ [][NextLocation]_vars

\* one row of medicines as fetchMedicines maps it
MedicineOf(m) ==
  [id |-> m, name |-> MedName[m], availableStores |-> 0, stock |-> stock[m],
   sellingPrice |-> MedPrice[m], pharmacyId |-> MedPharmacy[m]]

\* App.fetchMedicines, run once for the consumer who signed in: the rows
\* with stock > 0, in whatever order the store returns them (no ORDER BY),
\* followed by the effect of Home on the new list
fetchMedicines ==
  /\ medicines = << >>
  /\ LET rows == {m \in MedIds : stock[m] > 0}
         any == [m \in rows |-> 0]
     IN  \E data \in OrderBy(rows, any) :
           medicines' = [i \in 1..Len(data) |-> MedicineOf(data[i])]
  /\ UNCHANGED nearbyPharmacies
  /\ Home_effect
  /\ UNCHANGED <<deskVars, profile, saleVars, rvVars, uuid_ctr, clock, pc, result, tx_now,
                 latitude, userCoordinates, nearbyStoreCount, nearby_call,
                 detailVars, rxVars>>

NextCatalog ==
  \/ fetchMedicines
  \/ consumerSignedIn
  \/ \E lat \in UserLats : updateLocationState(lat, 0)

\* a consumer browsing the catalogue of the Home page
SpecCatalog == Init /\ [][NextCatalog]_vars

(* ---------------------------- prescriptions ---------------------------- *)
RxItem(n, q) == [name |-> n, quantity |-> q]

\* the lists the analysis of a prescription may give (never empty)
RxLists ==
  { <<RxItem("Crocin", 10)>>,
    <<RxItem("Crocin", 3), RxItem("Dolo", 5)>>,
    <<RxItem("Crocin", 10), RxItem("Dolo", 6)>>,
    <<RxItem(" ", 2), RxItem("Dolo", 5)>>,
    <<RxItem("Dolo", 9)>> }

\* name.trim() of the names in use
Trim(name) == IF name = " " THEN "" ELSE name

\* a list that keeps the lines without a name
validItems_KeepsBlank(items) == items

\* detectedItems.filter(i => i.name.trim() !== '')
validItems(items) ==
  LET Named(i) == Trim(i.name) # ""
  IN  SelectSeq(items, Named)

\* a payload that asks for one unit of every line
searchPayload_UnitQty(items) ==
  [k \in 1..Len(items) |-> [name |-> items[k].name, qty |-> 1]]

\* validItems.map(i => ({ name: i.name, qty: i.quantity }))
searchPayload(items) ==
  [k \in 1..Len(items) |-> [name |-> items[k].name, qty |-> items[k].quantity]]

\* the listings of shop ph that cover one requested item
Covering(ph, item) ==
  {m \in MedIds : /\ MedPharmacy[m] = ph
                  /\ ILike(MedName[m], item.name)
                  /\ stock[m] >= item.qty}

\* the unit price shop ph asks for a requested item it covers
UnitPrice(ph, item) ==
  LET prices == {MedPrice[m] : m \in Covering(ph, item)}
  IN  CHOOSE x \in prices : \A y \in prices : x <= y

RECURSIVE TotalCost(_, _)
\* sum over the items of unitPrice * requestedQuantity at the prices of ph
TotalCost(ph, items) ==
  IF items = << >> THEN 0
  ELSE UnitPrice(ph, Head(items)) * Head(items).qty + TotalCost(ph, Tail(items))

\* find_pharmacies_for_prescription(items, user_lat, user_lng): the lists it
\* may return.  All-or-nothing: a shop is returned if and only if it covers
\* every item; the shops come by ascending distance, those without
\* coordinates last.
find_pharmacies_for_prescription(items, user_lat, user_lng) ==
  LET qualifying == {ph \in PharmacyIds :
                       \A k \in 1..Len(items) : Covering(ph, items[k]) # {}}
      placed == {ph \in qualifying : latitude[ph] # NULL}
      distance_km == [ph \in placed |-> Distance(user_lat, Val(latitude[ph]))]
      none == [ph \in qualifying \ placed |-> 0]
      Row(ph) == [pharmacy_id |-> ph,
                  total_cost |-> TotalCost(ph, items),
                  distance_km |-> IF ph \in placed THEN Some(distance_km[ph]) ELSE NULL]
  IN  {[i \in 1..Len(sq) |-> Row(sq[i])] :
         sq \in {a \o b : a \in OrderBy(placed, distance_km),
                          b \in OrderBy(qualifying \ placed, none)}}

\* PrescriptionUpload.analyzePrescription: the analysis gives the lines of the
\* prescription and the dialog moves on to the list
analyzePrescription(items) ==
  /\ step = "upload"
  /\ detectedItems' = items
  /\ step' = "adjust"
  /\ UNCHANGED <<deskVars, profile, saleVars, rvVars, uuid_ctr, clock, pc, result, tx_now,
                 latitude, userCoordinates, nearbyVars, detailVars, catalogVars,
                 shops, rx_call>>

\* PrescriptionUpload.addNewItem: a line without a name is added
addNewItem ==
  /\ step = "adjust"
  /\ Len(detectedItems) < MaxRxItems
  /\ detectedItems' = Append(detectedItems, RxItem("", 6))
  /\ UNCHANGED <<deskVars, profile, saleVars, rvVars, uuid_ctr, clock, pc, result, tx_now,
                 latitude, userCoordinates, nearbyVars, detailVars, catalogVars,
                 shops, step, rx_call>>

\* PrescriptionUpload.findShops: nothing is sent without coordinates or
\* without a named line; else the RPC runs and the dialog shows its shops
findShops ==
  /\ step = "adjust"
  /\ IF userCoordinates = NULL \/ Len(validItems(detectedItems)) = 0
     THEN UNCHANGED <<shops, step, rx_call>>
     ELSE LET items == searchPayload(validItems(detectedItems))
              user_lat == Val(userCoordinates).lat
              user_lng == Val(userCoordinates).lng
          IN  /\ rx_call' = Some([items |-> items, user_lat |-> user_lat,
                                  user_lng |-> user_lng])
              /\ \E data \in find_pharmacies_for_prescription(items, user_lat, user_lng) :
                   shops' = [i \in 1..Len(data) |->
                               [pharmacyId |-> data[i].pharmacy_id,
                                totalCost |-> data[i].total_cost,
                                distance |-> data[i].distance_km]]
              /\ step' = "compare"
  /\ UNCHANGED <<deskVars, profile, saleVars, rvVars, uuid_ctr, clock, pc, result, tx_now,
                 latitude, userCoordinates, nearbyVars, detailVars, catalogVars,
                 detectedItems>>

\* PrescriptionUpload: "Modify Medicine List" goes back to the list
modifyMedicineList ==
  /\ step = "compare"
  /\ step' = "adjust"
  /\ UNCHANGED <<deskVars, profile, saleVars, rvVars, uuid_ctr, clock, pc, result, tx_now,
                 latitude, userCoordinates, nearbyVars, detailVars, catalogVars,
                 detectedItems, shops, rx_call>>

NextRx ==
  \/ \E lat \in UserLats : updateLocationState(lat, 0)
  \/ \E items \in RxLists : analyzePrescription(items)
  \/ addNewItem
  \/ findShops
  \/ modifyMedicineList
  \/ \E s \in CounterSessions, newSale \in CounterSales : rpc_process_sale(s, newSale)
  \/ \E s \in CounterSessions : AllocInvoice(s)
  \/ \E s \in CounterSessions : InsertSale(s)
  \/ \E s \in CounterSessions : SellItem(s)
  \/ \E s \in CounterSessions : ReturnSale(s)

\* consumers matching a prescription while the counters sell
SpecRx == Init /\ [][NextRx]_vars

(* --------------------------- billing screen ---------------------------- *)
\* the listings the clerk bills, the names and phones typed, the discounts
\* typed (none, half a rupee, 45 rupees: more than one unit of m2 costs)
BillMeds == {"m2"}
CustomerNames == {"", "Asha"}
CustomerPhones == {"", "98"}
Discounts == {0, 1, 90}
\* bills that may wait on hold at one time
MaxHeldBills == 1

\* the other tables of the store and the consumer's pages
offDeskVars == <<rvVars, readVars, uuid_ctr, verifVars>>
\* what process_sale works on
rpcVars == <<saleVars, clock, pc, result, tx_now>>

\* positions of the lines of medicine id in a cart
LinesOf(prev, id) == {i \in 1..Len(prev) : prev[i].id = id}

\* the updater addToCart hands to setCart: a line of its own for a medicine
\* not yet in the cart, one unit more on its line while stock allows
addToCart_updater(prev, m) ==
  IF LinesOf(prev, m) # {}
  THEN LET i == CHOOSE k \in LinesOf(prev, m) : \A j \in LinesOf(prev, m) : k <= j
       IN  IF prev[i].quantity >= inventory[m] THEN prev
           ELSE [prev EXCEPT ![i] = [@ EXCEPT
                    !.quantity = prev[i].quantity + 1,
                    !.total = prev[i].sellingPrice * (prev[i].quantity + 1)]]
  ELSE Append(prev, Item(m, 1))

\* SalesBilling.addToCart(medicine), the medicine being a row of the inventory
addToCart(m) ==
  /\ ~showSuccess
  /\ IF inventory[m] <= 0
     THEN UNCHANGED cart
     ELSE cart' = addToCart_updater(cart, m)
  /\ UNCHANGED <<customerName, customerPhone, discountAmount, heldBills,
                 processing, saleData, showSuccess, inventory, booking_status,
                 offDeskVars, rpcVars>>

\* SalesBilling.updateQuantity(id, delta), delta being +1 or -1
updateQuantity(id, delta) ==
  /\ ~showSuccess
  /\ LinesOf(cart, id) # {}
  /\ cart' = [i \in 1..Len(cart) |->
       IF cart[i].id = id
       THEN LET maxStock == inventory[id]
                newQty == Max(1, cart[i].quantity + delta)
            IN  IF delta > 0 /\ newQty > maxStock THEN cart[i]
                ELSE [cart[i] EXCEPT !.quantity = newQty,
                                     !.total = cart[i].sellingPrice * newQty]
       ELSE cart[i]]
  /\ UNCHANGED <<customerName, customerPhone, discountAmount, heldBills,
                 processing, saleData, showSuccess, inventory, booking_status,
                 offDeskVars, rpcVars>>

\* the lines of a cart that an id filter keeps
RECURSIVE Without(_, _)
Without(prev, id) ==
  IF prev = << >> THEN << >>
  ELSE IF Head(prev).id = id THEN Without(Tail(prev), id)
       ELSE <<Head(prev)>> \o Without(Tail(prev), id)

\* SalesBilling.removeFromCart(id)
removeFromCart(id) ==
  /\ ~showSuccess
  /\ LinesOf(cart, id) # {}
  /\ cart' = Without(cart, id)
  /\ UNCHANGED <<customerName, customerPhone, discountAmount, heldBills,
                 processing, saleData, showSuccess, inventory, booking_status,
                 offDeskVars, rpcVars>>

\* the inputs of the form: onChange={e => setCustomerName(e.target.value)}
setCustomerName(name) ==
  /\ ~showSuccess
  /\ name # customerName
  /\ customerName' = name
  /\ UNCHANGED <<cart, customerPhone, discountAmount, heldBills, processing,
                 saleData, showSuccess, inventory, booking_status,
                 offDeskVars, rpcVars>>

setCustomerPhone(phone) ==
  /\ ~showSuccess
  /\ phone # customerPhone
  /\ customerPhone' = phone
  /\ UNCHANGED <<cart, customerName, discountAmount, heldBills, processing,
                 saleData, showSuccess, inventory, booking_status,
                 offDeskVars, rpcVars>>

\* onChange={e => setDiscountAmount(Number(e.target.value))}
setDiscountAmount(d) ==
  /\ ~showSuccess
  /\ d # discountAmount
  /\ discountAmount' = d
  /\ UNCHANGED <<cart, customerName, customerPhone, heldBills, processing,
                 saleData, showSuccess, inventory, booking_status,
                 offDeskVars, rpcVars>>

\* the test that guards a sale: if (cart.length === 0 || processing) return,
\* the same in the F9 handler and in the disabled attribute of the button
CanPay == cart # << >> /\ ~processing

\* bookings in the order the dashboard lists them
BookingOrder == <<"b1", "b2", "b3">>
\* bookings.customer_name, bookings.medicine_name
BookingCustomer == [b \in BookingIds |-> "Asha"]
BookingMedicine == [b \in BookingIds |-> "Dolo"]

\* pendingBookings.find(b => b.customerName === name)
matchedBooking(name) ==
  LET hits == {i \in 1..Len(BookingOrder) :
                 /\ booking_status[BookingOrder[i]] \in {"Pending", "Ready"}
                 /\ BookingCustomer[BookingOrder[i]] = name}
  IN  IF hits = {} THEN NULL
      ELSE Some(BookingOrder[CHOOSE i \in hits : \A j \in hits : i <= j])

\* a connection that carries no request of the billing screen
DeskFree(s) == pc[s] = "idle" /\ saleData[s] = NULL

\* SalesBilling.handleCompleteSale up to its await: the bill is made from
\* the form as rendered and handleAddSale sends it on a free connection; what
\* runs after the await sees the cart and the bookings of this render
handleCompleteSale ==
  IF CanPay
  THEN /\ processing' = TRUE
       /\ \E s \in Sessions :
            /\ DeskFree(s)
            /\ \A t \in Sessions : t < s => ~DeskFree(t)
            /\ saleData' = [saleData EXCEPT ![s] =
                 Some([items |-> cart,
                       matchedBooking |-> matchedBooking(customerName)])]
            /\ StartSale(s, SaleOf(DeskPharmacy, cart, discountAmount))
       /\ UNCHANGED <<cart, customerName, customerPhone, discountAmount,
                      heldBills, showSuccess, inventory, booking_status,
                      offDeskVars>>
  ELSE UNCHANGED vars

\* the PAY NOW button (it is not on the "Sale Completed" page)
payNow ==
  /\ ~showSuccess
  /\ CanPay
  /\ handleCompleteSale

\* the F9 key: the listener is on the window whatever page is shown
pressF9 ==
  /\ CanPay
  /\ handleCompleteSale

RECURSIVE soldFrom(_, _)
\* handleAddSale: newSale.items.forEach(soldItem => setInventory(... stock:
\* Math.max(0, stock - soldItem.quantity)))
soldFrom(inv, items) ==
  IF items = << >> THEN inv
  ELSE LET it == Head(items)
           next == IF it.id \in DOMAIN inv
                   THEN [inv EXCEPT ![it.id] = Max(0, inv[it.id] - it.quantity)]
                   ELSE inv
       IN  soldFrom(next, Tail(items))

\* the request of session s has come back: handleAddSale updates the
\* inventory of the dashboard, handleCompleteSale shows the success page and
\* completes the booking found under the customer name of the bill
saleReturned(s) ==
  /\ saleData[s] # NULL
  /\ pc[s] = "idle"
  /\ IF result[s] = "ok"
     THEN /\ inventory' = soldFrom(inventory, Val(saleData[s]).items)
          /\ showSuccess' = TRUE
          /\ LET hit == Val(saleData[s]).matchedBooking
             IN  booking_status' =
                   IF hit = NULL THEN booking_status
                   ELSE [booking_status EXCEPT ![Val(hit)] = "Completed"]
     ELSE UNCHANGED <<inventory, showSuccess, booking_status>>
  /\ processing' = FALSE
  /\ saleData' = [saleData EXCEPT ![s] = NULL]
  /\ UNCHANGED <<cart, customerName, customerPhone, discountAmount, heldBills,
                 offDeskVars, rpcVars>>

\* SalesBilling.handleReset ("Reset Form", "Start New Sale")
handleReset ==
  /\ showSuccess \/ cart # << >> \/ customerName # "" \/ customerPhone # ""
       \/ discountAmount # 0
  /\ showSuccess' = FALSE
  /\ cart' = << >>
  /\ customerName' = ""
  /\ customerPhone' = ""
  /\ discountAmount' = 0
  /\ UNCHANGED <<heldBills, processing, saleData, inventory, booking_status,
                 offDeskVars, rpcVars>>

\* `HOLD-${Date.now()}`: a stamp no bill on hold carries yet
NextHoldId ==
  LET ids == {heldBills[i].id : i \in 1..Len(heldBills)}
  IN  IF ids = {} THEN 1 ELSE 1 + (CHOOSE x \in ids : \A y \in ids : y <= x)

\* customerName || `Held Bill ${new Date().toLocaleTimeString()}`
HeldName(name) == IF name = "" THEN "Held Bill 10:30" ELSE name

\* SalesBilling.handleHoldBill: the bill goes on hold and the form is reset
handleHoldBill ==
  /\ ~showSuccess
  /\ cart # << >>
  /\ Len(heldBills) < MaxHeldBills
  /\ heldBills' = <<[id |-> NextHoldId, customerName |-> HeldName(customerName),
                     customerPhone |-> customerPhone, items |-> cart,
                     discount |-> discountAmount]>> \o heldBills
  /\ showSuccess' = FALSE
  /\ cart' = << >>
  /\ customerName' = ""
  /\ customerPhone' = ""
  /\ discountAmount' = 0
  /\ UNCHANGED <<processing, saleData, inventory, booking_status,
                 offDeskVars, rpcVars>>

\* SalesBilling.handleRecallBill(bill), the bill being the i-th on hold
handleRecallBill(i) ==
  /\ ~showSuccess
  /\ i \in 1..Len(heldBills)
  /\ cart' = heldBills[i].items
  /\ customerName' = heldBills[i].customerName
  /\ customerPhone' = heldBills[i].customerPhone
  /\ discountAmount' = heldBills[i].discount
  /\ heldBills' = SelectSeq(heldBills, LAMBDA b : b.id # heldBills[i].id)
  /\ UNCHANGED <<processing, saleData, showSuccess, inventory, booking_status,
                 offDeskVars, rpcVars>>

NextPay ==
  \/ \E m \in BillMeds : addToCart(m)
  \/ \E m \in BillMeds, delta \in {-1, 1} : updateQuantity(m, delta)
  \/ \E m \in BillMeds : removeFromCart(m)
  \/ \E d \in Discounts : setDiscountAmount(d)
  \/ payNow
  \/ pressF9
  \/ \E s \in Sessions : AllocInvoice(s)
  \/ \E s \in Sessions : InsertSale(s)
  \/ \E s \in Sessions : SellItem(s)
  \/ \E s \in Sessions : ReturnSale(s)
  \/ \E s \in Sessions : saleReturned(s)
  \/ handleReset

\* a clerk making bills and taking payment
SpecPay == Init /\ [][NextPay]_vars

(* ------------------------ bills on hold, app orders --------------------- *)
\* inventory.find(m => m.name === name): the listing of the shop under a name
inventoryByName(name) ==
  LET hits == {m \in DeskMeds : MedName[m] = name}
  IN  IF hits = {} THEN NULL ELSE Some(CHOOSE m \in hits : TRUE)

\* SalesBilling.loadBookingIntoCart(booking), the booking being one of
\* pendingBookings: the cart is replaced by one unit of the medicine booked,
\* the form takes the customer of the booking, a Pending booking turns Ready
loadBookingIntoCart(b) ==
  /\ ~showSuccess
  /\ booking_status[b] \in {"Pending", "Ready"}
  /\ LET found == inventoryByName(BookingMedicine[b])
     IN  IF found = NULL
         THEN UNCHANGED <<cart, customerName, customerPhone, booking_status>>
         ELSE /\ cart' = IF inventory[Val(found)] <= 0 THEN << >>
                         ELSE addToCart_updater(<< >>, Val(found))
              /\ customerName' = BookingCustomer[b]
              /\ customerPhone' = ""
              /\ booking_status' =
                   IF booking_status[b] = "Pending"
                   THEN [booking_status EXCEPT ![b] = "Ready"]
                   ELSE booking_status
  /\ UNCHANGED <<discountAmount, heldBills, processing, saleData, showSuccess,
                 inventory, offDeskVars, rpcVars>>

\* the discounts typed at a form whose bills go on hold
HoldDiscounts == {0, 1}

NextHold ==
  \/ \E m \in BillMeds : addToCart(m)
  \/ \E m \in BillMeds, delta \in {-1, 1} : updateQuantity(m, delta)
  \/ \E m \in BillMeds : removeFromCart(m)
  \/ \E name \in CustomerNames : setCustomerName(name)
  \/ \E phone \in CustomerPhones : setCustomerPhone(phone)
  \/ \E d \in HoldDiscounts : setDiscountAmount(d)
  \/ handleHoldBill
  \/ \E i \in 1..MaxHeldBills : handleRecallBill(i)
  \/ handleReset

\* a clerk filling the form, putting bills on hold and recalling them
SpecHold == Init /\ [][NextHold]_vars

\* the app order the clerk loads at the counter
CounterBookings == {"b1"}

NextCart ==
  \/ \E m \in BillMeds : addToCart(m)
  \/ \E m \in BillMeds, delta \in {-1, 1} : updateQuantity(m, delta)
  \/ \E m \in BillMeds : removeFromCart(m)
  \/ handleHoldBill
  \/ \E i \in 1..MaxHeldBills : handleRecallBill(i)
  \/ \E b \in CounterBookings : loadBookingIntoCart(b)
  \/ payNow
  \/ pressF9
  \/ \E s \in Sessions : AllocInvoice(s)
  \/ \E s \in Sessions : InsertSale(s)
  \/ \E s \in Sessions : SellItem(s)
  \/ \E s \in Sessions : ReturnSale(s)
  \/ \E s \in Sessions : saleReturned(s)
  \/ handleReset

\* a clerk making bills, holding and recalling them, loading app orders and
\* taking payment
SpecCart == Init /\ [][NextCart]_vars

(* ----------------------------- app orders ------------------------------- *)
\* the App Orders view is open: the dashboard shows one view at a time, and
\* the billing screen it shows afterwards starts from an empty form
AppOrdersView ==
  /\ cart = << >> /\ customerName = "" /\ customerPhone = ""
  /\ discountAmount = 0 /\ heldBills = << >>
  /\ ~processing /\ ~showSuccess
  /\ \A s \in Sessions : saleData[s] = NULL

\* AppBookings.updateStatus(id, status): the list of the dashboard and the
\* row of the booking take the status
updateStatus(id, status) ==
  /\ booking_status' = [booking_status EXCEPT ![id] = status]
  /\ UNCHANGED <<billVars, offDeskVars, rpcVars>>

\* the Mark Ready button, shown on a Pending booking
markReady(b) ==
  /\ AppOrdersView
  /\ booking_status[b] = "Pending"
  /\ updateStatus(b, "Ready")

\* the Complete button, shown on a Ready booking
complete(b) ==
  /\ AppOrdersView
  /\ booking_status[b] = "Ready"
  /\ updateStatus(b, "Completed")

\* the codes a scanner reads: the id of a booking, or another text
ScanCodes == BookingIds \cup {"bX"}

\* AppBookings.handleScanSuccess(code)
handleScanSuccess(code) ==
  /\ AppOrdersView
  /\ IF code \in BookingIds
     THEN IF booking_status[code] = "Completed"
          THEN UNCHANGED vars
          ELSE updateStatus(code, "Completed")
     ELSE UNCHANGED vars

NextBookings ==
  \/ \E b \in BookingIds : markReady(b)
  \/ \E b \in BookingIds : complete(b)
  \/ \E code \in ScanCodes : handleScanSuccess(code)
  \/ \E b \in BookingIds : loadBookingIntoCart(b)
  \/ \E m \in BillMeds : addToCart(m)
  \/ \E name \in CustomerNames : setCustomerName(name)
  \/ payNow
  \/ pressF9
  \/ \E s \in Sessions : AllocInvoice(s)
  \/ \E s \in Sessions : InsertSale(s)
  \/ \E s \in Sessions : SellItem(s)
  \/ \E s \in Sessions : ReturnSale(s)
  \/ \E s \in Sessions : saleReturned(s)
  \/ handleReset

\* a shop handling its app orders, at the App Orders view and at the counter
SpecBookings == Init /\ [][NextBookings]_vars

(* ---------------------------- verification ------------------------------ *)
\* the shop whose owner asks for verification: its row starts unverified,
\* with no drug license document, which is also what the form of a Settings
\* page holds before fetchSettings has filled it
OwnerShop == "p3"
\* the decisions of the review dialog
Decisions == {"verified", "rejected"}

\* what the Settings page and the SuperAdmin dashboard leave alone
nonVerifVars == <<billVars, booking_status, rvVars, readVars, uuid_ctr, rpcVars>>

\* Settings.fetchSettings in browser session s (the page is opened): the form
\* takes the row of the shop
fetchSettings(s) ==
  /\ formData' = [formData EXCEPT ![s] =
       [verification_status |-> verification_status[OwnerShop],
        drug_license_url |-> drug_license_url[OwnerShop]]]
  /\ UNCHANGED <<verification_status, drug_license_url, admin_pharmacies,
                 reviewShop, nonVerifVars>>

\* Settings.handleDocumentUpload(e, 'dl'): the upload is offered while no
\* document is shown, and as Change while the form is not verified
handleDocumentUpload(s) ==
  /\ ~formData[s].drug_license_url \/ formData[s].verification_status # "verified"
  /\ formData' = [formData EXCEPT ![s].drug_license_url = TRUE]
  /\ drug_license_url' = [drug_license_url EXCEPT ![OwnerShop] = TRUE]
  /\ UNCHANGED <<verification_status, admin_pharmacies, reviewShop, nonVerifVars>>

\* Settings.submitForVerification, its button being shown while the form is
\* unverified or rejected
submitForVerification(s) ==
  /\ formData[s].verification_status \in {"unverified", "rejected"}
  /\ IF ~formData[s].drug_license_url
     THEN UNCHANGED <<verification_status, formData>>
     ELSE /\ verification_status' =
               [verification_status EXCEPT ![OwnerShop] = "pending_review"]
          /\ formData' = [formData EXCEPT ![s].verification_status = "pending_review"]
  /\ UNCHANGED <<drug_license_url, admin_pharmacies, reviewShop, nonVerifVars>>

\* SuperAdminDashboard.fetchData in browser session s: the list of shops
fetchData(s) ==
  /\ admin_pharmacies' = [admin_pharmacies EXCEPT ![s] =
       Some([ph \in PharmacyIds |-> verification_status[ph]])]
  /\ UNCHANGED <<verification_status, drug_license_url, formData, reviewShop,
                 nonVerifVars>>

\* the Review Documents button of a shop the list shows as pending_review
setReviewShop(s, ph) ==
  /\ admin_pharmacies[s] # NULL
  /\ reviewShop[s] = NULL
  /\ Val(admin_pharmacies[s])[ph] = "pending_review"
  /\ reviewShop' = [reviewShop EXCEPT ![s] = Some(ph)]
  /\ UNCHANGED <<verification_status, drug_license_url, formData,
                 admin_pharmacies, nonVerifVars>>

\* SuperAdminDashboard.handleVerificationDecision(status), from the buttons of
\* the review dialog
handleVerificationDecision(s, status) ==
  /\ reviewShop[s] # NULL
  /\ LET id == Val(reviewShop[s])
     IN  /\ verification_status' = [verification_status EXCEPT ![id] = status]
         /\ admin_pharmacies' = [admin_pharmacies EXCEPT ![s] =
              Some([Val(admin_pharmacies[s]) EXCEPT ![id] = status])]
  /\ reviewShop' = [reviewShop EXCEPT ![s] = NULL]
  /\ UNCHANGED <<drug_license_url, formData, nonVerifVars>>

NextVerify ==
  \/ \E s \in Sessions : fetchSettings(s)
  \/ \E s \in Sessions : handleDocumentUpload(s)
  \/ \E s \in Sessions : submitForVerification(s)
  \/ \E s \in Sessions : fetchData(s)
  \/ \E s \in Sessions, ph \in PharmacyIds : setReviewShop(s, ph)
  \/ \E s \in Sessions, status \in Decisions : handleVerificationDecision(s, status)

\* owners asking for verification and administrators deciding, each in a
\* browser session of their own
SpecVerify == Init /\ [][NextVerify]_vars

(* ======================= TransactionProcessor claims =================== *)
RECURSIVE SumQty(_, _)
\* units of medicine m requested by the lines of a cart
SumQty(items, m) ==
  IF items = << >> THEN 0
  ELSE (IF Head(items).id = m THEN Head(items).quantity ELSE 0) + SumQty(Tail(items), m)

RECURSIVE SumRows(_)
\* units on a set of sale_items rows
SumRows(rows) ==
  IF rows = {} THEN 0
  ELSE LET r == CHOOSE x \in rows : TRUE IN r.quantity + SumRows(rows \ {r})

\* committed line items of medicine m
ItemsOf(m) == {it \in sale_items : it.medicine_id = m}

\* session s takes the step that ends its call with success
Commits(s) == pc[s] = "return" /\ pc'[s] = "idle"

\* session s takes the step that ends its call with an error
Fails(s) == pc[s] # "idle" /\ pc'[s] = "idle" /\ result'[s] # "ok"

\* some line of the cart of s asks for more than the listing holds now
Oversells(s) ==
  \E i \in 1..Len(p_args[s].p_items) :
     /\ p_args[s].p_items[i].id \in MedIds
     /\ p_args[s].p_items[i].quantity > stock[p_args[s].p_items[i].id]

\* C1: a commitSale whose line asks for more units than the listing holds at
\* commit time fails with InsufficientStock, creates no order and leaves the
\* listing quantity as it was.
C1_OversellRejected ==
  [][\A s \in Sessions :
       (pc[s] = "return" /\ pc'[s] = "idle" /\ Oversells(s))
          => (result'[s] = "InsufficientStock" /\ UNCHANGED dbVars)]_vars

\* C2: in every reachable state every listing's quantity on hand is >= 0.
C2_StockNeverNegative == \A m \in MedIds : stock[m] >= 0

\* C3: of two interleaved commitSale calls on one listing whose combined
\* quantity exceeds the stock on hand, the later one to commit fails with
\* InsufficientStock and the quantity reflects the first sale only.  The call
\* of session t overlaps the committed sale r when r's transaction began
\* after t's and has already committed.
C3_InterleavedOversellRejected ==
  [][\A t \in Sessions :
       (/\ Commits(t)
        /\ \E r \in sales, m \in MedIds :
              /\ r.created_at > tx_now[t]
              /\ \E it \in ItemsOf(m) : it.sale_id = r.id
              /\ SumQty(p_args[t].p_items, m) > 0
              /\ SumQty(p_args[t].p_items, m) > stock[m])
          => (result'[t] = "InsufficientStock" /\ stock' = stock)]_vars

\* no line item without its order header
NoOrphanItems == \A it \in sale_items : \E r \in sales : r.id = it.sale_id

\* no order header without a line item
NoEmptyOrders == \A r \in sales : \E it \in sale_items : it.sale_id = r.id

\* the stock of a listing is what it was less the units on committed lines
StockMatchesItems == \A m \in MedIds : stock[m] + SumRows(ItemsOf(m)) = InitStock[m]

\* C4: commitSale is all-or-nothing.  A call that ends in an error leaves
\* orders, line items and stock as they were; the committed tables change
\* only in the one step that ends a call with success; and a reader of the
\* committed tables never sees a line without its header, a header without
\* lines, or lines without their stock decrement.
C4_AllOrNothing ==
  /\ [](NoOrphanItems /\ NoEmptyOrders /\ StockMatchesItems)
  /\ [][/\ \A s \in Sessions : Fails(s) => UNCHANGED dbVars
        /\ (\A s \in Sessions : ~Commits(s)) => UNCHANGED dbVars]_vars

\* a call failed after its header and a line were written, and none is visible
C4_Witness ==
  /\ \E s \in Sessions : result[s] = "foreign_key_violation"
  /\ \A s \in Sessions : pc[s] = "idle"
  /\ uuid_ctr > 1
  /\ sales = {} /\ sale_items = {} /\ stock = InitStock

\* C5: a successful commitSale lowers each sold listing by exactly the units
\* on its lines and stores one line item per cart entry with that quantity.
C5_ExactDecrement ==
  [][\A s \in Sessions :
       Commits(s) =>
         /\ \A m \in MedIds : stock'[m] = stock[m] - SumQty(p_args[s].p_items, m)
         /\ LET added == sale_items' \ sale_items
            IN  /\ Cardinality(added) = Len(p_args[s].p_items)
                /\ \A i \in 1..Len(p_args[s].p_items) :
                      \E it \in added :
                         /\ it.id = <<v_sale_id[s], i>>
                         /\ it.sale_id = v_sale_id[s]
                         /\ it.medicine_id = p_args[s].p_items[i].id
                         /\ it.quantity = p_args[s].p_items[i].quantity]_vars

\* a listing of 10 after one sale of 3
C5_Witness ==
  /\ stock["m1"] = 7
  /\ Cardinality(sale_items) = 1
  /\ \E it \in sale_items : it.medicine_id = "m1" /\ it.quantity = 3

\* C6: a commitSale call issued after a successful one, for the same or for
\* another pharmacy, is given a larger invoice sequence number: the number a
\* call draws from invoice_seq exceeds that of every order committed so far.
C6_InvoiceSeqIncreases ==
  [][\A s \in Sessions :
       (pc[s] = "nextval" /\ pc'[s] = "insert_sale")
          => \A r \in sales : r.invoice_number.seq < v_invoice_number'[s].seq]_vars

\* two committed orders of different pharmacies, numbered from the one counter
C6_Witness ==
  \E a, b \in sales :
     /\ a.pharmacy_id = "p1" /\ b.pharmacy_id = "p2"
     /\ a.invoice_number.seq = InvoiceSeqStart
     /\ b.invoice_number.seq = InvoiceSeqStart + 1

\* C7: no two committed orders share an invoice number, and of two committed
\* orders the one created earlier has the smaller sequence number.
C7_InvoiceUniqueAndOrdered ==
  \A a, b \in sales :
     a # b => /\ a.invoice_number # b.invoice_number
              /\ (a.created_at < b.created_at
                    => a.invoice_number.seq < b.invoice_number.seq)
(* ========================= RatingAggregator claims ===================== *)
\* session t takes the step that ends its submit_review call with success
ReviewCommits(t) == pc[t] = "rv_return" /\ pc'[t] = "idle"

\* C8: of two concurrent submitReview calls for one booking exactly one
\* succeeds; the other fails with DuplicateReview and adds nothing to the
\* reviews, the rating or the reviewCount.  The call of session t overlaps
\* the committed review rv when rv's transaction began after t's and has
\* already committed.
C8_ConcurrentDuplicateRejected ==
  [][\A t \in Sessions :
       (/\ ReviewCommits(t)
        /\ \E rv \in reviews :
              /\ rv.booking_id = r_args[t].p_booking_id
              /\ rv.created_at > tx_now[t])
          => (result'[t] = "DuplicateReview" /\ UNCHANGED rvDbVars)]_vars

\* C9: there is at most one accepted review per booking, and a submitReview
\* for a booking that already has a review fails with DuplicateReview and
\* leaves the reviews, the rating and the reviewCount unchanged.
C9_OneReviewPerBooking ==
  /\ [](\A a, b \in reviews : a.booking_id = b.booking_id => a = b)
  /\ [][\A t \in Sessions :
          (/\ ReviewCommits(t)
           /\ \E rv \in reviews : rv.booking_id = r_args[t].p_booking_id)
             => (result'[t] = "DuplicateReview" /\ UNCHANGED rvDbVars)]_vars

\* committed reviews of pharmacy ph
ReviewsOf(ph) == {rv \in reviews : rv.pharmacy_id = ph}

RECURSIVE SumRatings(_)
\* sum of the ratings on a set of reviews rows
SumRatings(rows) ==
  IF rows = {} THEN 0
  ELSE LET r == CHOOSE x \in rows : TRUE IN r.rating + SumRatings(rows \ {r})

\* C10: a successful submitReview with rating r on a pharmacy with aggregate
\* (average a, count n) leaves count n + 1 and an average a' with
\* a' * (n + 1) = a * n + r; hence in every state reviewCount is the number
\* of accepted reviews and rating * reviewCount the sum of their ratings.
C10_RunningAverage ==
  /\ [](\A ph \in PharmacyIds :
          /\ review_count[ph] = Cardinality(ReviewsOf(ph))
          /\ rating[ph].num * review_count[ph]
                = SumRatings(ReviewsOf(ph)) * rating[ph].den)
  /\ [][\A s \in Sessions :
          ReviewCommits(s) =>
            LET ph == r_args[s].p_pharmacy_id
                r == r_args[s].p_rating
                a == rating[ph]
                n == review_count[ph]
            IN  /\ review_count'[ph] = n + 1
                /\ rating'[ph].num * (n + 1) * a.den
                      = (a.num * n + r * a.den) * rating'[ph].den]_vars

(* ======================= AvailabilityIndex claims ====================== *)
\* C11: whatever the store holds and whatever is searched, the availability
\* list holds no record whose quantity is 0 or less; a listing that sales
\* have brought to 0 is not in the lists fetched afterwards.
C11_NoSoldOutRecord ==
  \A i \in 1..Len(pharmacies) : pharmacies[i].stock > 0

\* the listing m1, the only Crocin of p1, is sold out and the list fetched
\* since then shows the other shops without p1
C11_Witness ==
  /\ stock["m1"] = 0
  /\ medicine = Some("Crocin")
  /\ stockFilter = "all"
  /\ Len(pharmacies) > 0
  /\ \A i \in 1..Len(pharmacies) : pharmacies[i].id # "p1"

\* C12: a geographic query (nearby shops or availability) made while the
\* searcher's coordinates are absent is rejected with LocationRequired: no
\* request goes out with (0,0) in their place and no list of distances
\* measured from (0,0) is shown.
C12_LocationRequired ==
  userCoordinates = NULL =>
    /\ avail_call = NULL
    /\ nearby_call = NULL
    /\ pharmacies = << >>
    /\ nearbyPharmacies = << >>

\* C13: the availability query returns only shops whose distance from the
\* coordinates it was given is within the radius it was given; a shop that
\* stocks the medicine farther away than that is never in the list.
C13_WithinRadius ==
  \A i \in 1..Len(pharmacies) :
    pharmacies[i].distance <= Val(avail_call).radius_km

\* rating a is not above rating b (two fractions)
RatingLeq(a, b) == a.num * b.den <= b.num * a.den

\* C18: the availability list is in the order of the selected sort key:
\* nearest gives non-decreasing distance (a shop at distance 0 comes
\* first), cheapest gives non-decreasing price, rating gives non-increasing
\* rating; records equal on the key keep their input order, which is the
\* query's order by ascending distance.
C18_SortedByKey ==
  \A i, j \in 1..Len(pharmacies) :
    i < j =>
      /\ sortBy = "nearest" => pharmacies[i].distance <= pharmacies[j].distance
      /\ sortBy = "cheapest" =>
           /\ pharmacies[i].price <= pharmacies[j].price
           /\ pharmacies[i].price = pharmacies[j].price =>
                pharmacies[i].distance <= pharmacies[j].distance
      /\ sortBy = "rating" =>
           /\ RatingLeq(pharmacies[j].rating, pharmacies[i].rating)
           /\ pharmacies[i].rating = pharmacies[j].rating =>
                pharmacies[i].distance <= pharmacies[j].distance

\* C20: every record of the availability list carries "In Stock" exactly
\* when its quantity is above 10 and "Low Stock" exactly when its quantity
\* is 1 to 10; no record carries "Out of Stock".
C20_StockStatus ==
  \A i \in 1..Len(pharmacies) :
    /\ pharmacies[i].stockStatus = "In Stock" <=> pharmacies[i].stock > 10
    /\ pharmacies[i].stockStatus = "Low Stock" <=>
         (pharmacies[i].stock >= 1 /\ pharmacies[i].stock <= 10)
    /\ pharmacies[i].stockStatus # "Out of Stock"

\* the list shows a listing of 11 as in stock next to a listing of 10 as low
C20_Witness ==
  \E i, j \in 1..Len(pharmacies) :
    /\ pharmacies[i].stock = 11 /\ pharmacies[i].stockStatus = "In Stock"
    /\ pharmacies[j].stock = 10 /\ pharmacies[j].stockStatus = "Low Stock"

(* ========================= DistanceRanker claims ======================= *)
\* the App has just run fetchNearbyStores
NearbyFetched ==
  \/ consumerSignedIn
  \/ \E lat \in UserLats : updateLocationState(lat, 0)

\* the shops that may be ranked for a request: verified, with coordinates
\* set, and no farther from the request's coordinates than its radius
InRadius(call) ==
  {ph \in PharmacyIds :
     /\ latitude[ph] # NULL
     /\ Val(latitude[ph]) # 0
     /\ Verified[ph]
     /\ KmPerStep * Abs(call.user_lat - Val(latitude[ph])) <= call.radius_km}

\* C19: rankNearbyPharmacies(lat, lng, radiusKm) returns exactly the eligible
\* pharmacies whose distance from (lat, lng) is within radiusKm, each once,
\* in non-decreasing order of distance.
C19_ExactlyWithinRadius ==
  [][NearbyFetched =>
       LET call == Val(nearby_call')
           list == nearbyPharmacies'
       IN  /\ {list[i].id : i \in 1..Len(list)} = InRadius(call)
           /\ Len(list) = Cardinality(InRadius(call))
           /\ \A i \in 1..Len(list) :
                list[i].distance = KmPerStep * Abs(call.user_lat - Val(latitude[list[i].id]))
           /\ \A i, j \in 1..Len(list) :
                i < j => list[i].distance <= list[j].distance]_vars

\* from the place of p1 the ranking is p1 (0 km), then p2 (11 km); p3
\* (unverified), p4 (66 km) and p5 (no coordinates) are left out
C19_Witness ==
  /\ userCoordinates = Some([lat |-> 1, lng |-> 0])
  /\ latitude = InitLatitude
  /\ Len(nearbyPharmacies) = 2
  /\ nearbyPharmacies[1].id = "p1" /\ nearbyPharmacies[1].distance = 0
  /\ nearbyPharmacies[2].id = "p2" /\ nearbyPharmacies[2].distance = 11

(* ====================== PrescriptionMatcher claims ===================== *)
\* shop ph holds a listing of the named item with at least qty on hand
Holds(ph, name, qty) ==
  \E m \in MedIds : /\ MedPharmacy[m] = ph
                    /\ ILike(MedName[m], name)
                    /\ stock[m] >= qty

\* the lowest price among the listings of shop ph that hold the item (0 if
\* it holds none)
OwnPrice(ph, name, qty) ==
  LET own == {MedPrice[m] : m \in {x \in MedIds : /\ MedPharmacy[x] = ph
                                                  /\ ILike(MedName[x], name)
                                                  /\ stock[x] >= qty}}
  IN  IF own = {} THEN 0 ELSE CHOOSE x \in own : \A y \in own : x <= y

RECURSIVE OwnCost(_, _)
\* what the named lines of a prescription cost at the prices of shop ph
OwnCost(ph, lines) ==
  IF lines = << >> THEN 0
  ELSE (IF Trim(Head(lines).name) = "" THEN 0
        ELSE OwnPrice(ph, Head(lines).name, Head(lines).quantity) * Head(lines).quantity)
       + OwnCost(ph, Tail(lines))

\* findShops has just shown the shops matching the prescription
ShopsShown == step = "adjust" /\ step' = "compare"

InRangeListings == NearbyListings(medicines, nearbyPharmacies)

\* the listings in range that carry the name
Named(name) ==
  {i \in 1..Len(InRangeListings) : InRangeListings[i].name = name}

C17_DistinctStores ==
  nearbyPharmacies # << >> =>
    \A k \in 1..Len(displayMedicines) :
      displayMedicines[k].availableStores =
        Cardinality({InRangeListings[i].pharmacyId : i \in Named(displayMedicines[k].name)})

\* C25: two submitReview calls for two different bookings of one pharmacy
\* that run concurrently and both succeed lose no aggregate update: as long
\* as no booking was reviewed twice, the pharmacy's reviewCount is the number
\* of review rows stored for it and its rating is the mean of their ratings.
C25_NoLostUpdate ==
  \A ph \in PharmacyIds :
     (\A a, b \in ReviewsOf(ph) : a.booking_id = b.booking_id => a = b)
        => /\ review_count[ph] = Cardinality(ReviewsOf(ph))
           /\ rating[ph].num * review_count[ph]
                 = SumRatings(ReviewsOf(ph)) * rating[ph].den

(* ================== TransactionProcessor claims, continued ============= *)
\* C26: commitSale for pharmacy P changes the quantity only of listings that
\* belong to P and are named in the cart: the step that commits a call leaves
\* every listing outside the cart, and every listing of another pharmacy,
\* with the quantity it had.
C26_OnlyOwnListings ==
  [][\A s \in Sessions :
       Commits(s) =>
         \A m \in MedIds :
            stock'[m] # stock[m]
               => /\ SumQty(p_args[s].p_items, m) # 0
                  /\ MedPharmacy[m] = p_args[s].p_pharmacy_id]_vars

\* listings the cart does not name keep their quantity
UnnamedListingsKept ==
  [][\A s \in Sessions :
       Commits(s) =>
         \A m \in MedIds :
            SumQty(p_args[s].p_items, m) = 0 => stock'[m] = stock[m]]_vars

\* some line of the cart of s asks for zero units or fewer
NonPositiveLine(s) ==
  \E i \in 1..Len(p_args[s].p_items) : p_args[s].p_items[i].quantity <= 0

\* C21: a commitSale with a line whose quantity is zero or negative is
\* rejected with ValidationError and changes nothing: the step that ends such
\* a call reports ValidationError and leaves orders, line items and every
\* listing quantity as they were.
C21_NonPositiveRejected ==
  [][\A s \in Sessions :
       (pc[s] # "idle" /\ pc'[s] = "idle" /\ NonPositiveLine(s))
          => (result'[s] = "ValidationError" /\ UNCHANGED dbVars)]_vars

RECURSIVE SumTotals(_)
\* sum of the line totals on a set of sale_items rows
SumTotals(rows) ==
  IF rows = {} THEN 0
  ELSE LET r == CHOOSE x \in rows : TRUE IN r.total + SumTotals(rows \ {r})

\* the committed lines of order r
LinesOfSale(r) == {it \in sale_items : it.sale_id = r.id}

\* C22: for every committed order the header total equals the sum of its line
\* totals (unit price times quantity) minus the discount, up to rounding to
\* the rupee (half a rupee, one unit of the amounts here), for every cart
\* and every discount the billing screen accepts, a discount larger than the
\* subtotal included.
C22_HeaderTotal ==
  \A r \in sales :
     /\ \A it \in LinesOfSale(r) : it.total = it.price * it.quantity
     /\ r.total - (SumTotals(LinesOfSale(r)) - r.discount) \in -1..1

\* the same for the discounts that do not exceed the subtotal
HeaderTotalUpToSubtotal ==
  \A r \in sales :
     r.discount <= r.subtotal =>
       /\ \A it \in LinesOfSale(r) : it.total = it.price * it.quantity
       /\ r.subtotal = SumTotals(LinesOfSale(r))
       /\ r.total - (SumTotals(LinesOfSale(r)) - r.discount) \in -1..1

(* ========================= billing screen claims ======================= *)
\* connections that carry a request of the billing screen not yet answered
InFlight == {s \in Sessions : saleData[s] # NULL}

\* while a request has not returned, at most one is in flight and Pay issues
\* no other
OneRequestInFlight ==
  /\ [](Cardinality(InFlight) <= 1)
  /\ [][processing => \A s \in Sessions :
                         saleData'[s] # saleData[s] => saleData'[s] = NULL]_vars

\* C27: on one billing screen at most one commitSale request is in flight at
\* a time: Pay (the button or F9) triggered again before the first request
\* has returned issues no second process_sale call, so one cart produces at
\* most one order and one stock decrement: no request is sent for a cart
\* whose sale has completed and which has not been reset since.
C27_OneCartOneOrder ==
  /\ OneRequestInFlight
  /\ [][\A s \in Sessions :
          (saleData[s] = NULL /\ saleData'[s] # NULL) => ~showSuccess]_vars

\* the lines of the form stay within the stock the dashboard holds
CartWithinStock ==
  \A i \in 1..Len(cart) :
    /\ cart[i].quantity >= 1
    /\ cart[i].quantity <= inventory[cart[i].id]
    /\ inventory[cart[i].id] # 0

\* C28: in every state the billing form can be brought to by addToCart,
\* updateQuantity, removeFromCart, hold, recall, load-booking and completed
\* sales, each cart line has a quantity of at least 1 and at most the current
\* stock of its medicine in the shop's inventory, and no medicine with stock 0
\* is in the cart.
C28_CartWithinStock == ~showSuccess => CartWithinStock

\* adding, changing and loading lines keep the cart within the stock
CartOpsWithinStock ==
  [][(/\ CartWithinStock
      /\ inventory' = inventory
      /\ heldBills' = heldBills \/ Len(heldBills') > Len(heldBills))
     => CartWithinStock']_vars

\* the form: cart lines, customer name, phone, discount
FormOf(c, name, phone, d) ==
  [items |-> c, customerName |-> name, customerPhone |-> phone, discount |-> d]
\* what a bill on hold keeps of the form
HeldForm(bill) ==
  FormOf(bill.items, bill.customerName, bill.customerPhone, bill.discount)
\* the sequence without its i-th element
RemoveAt(sq, i) == [k \in 1..(Len(sq) - 1) |-> IF k < i THEN sq[k] ELSE sq[k + 1]]

\* C29: a bill put on hold keeps the form as it was (cart lines and
\* quantities, customer name, an empty one included, phone and discount) and
\* holding empties the cart; recalling a bill puts exactly what it keeps back
\* on the form and removes that bill from the held list and no other.
C29_HoldRecallRoundTrip ==
  /\ [][Len(heldBills') > Len(heldBills) =>
          /\ HeldForm(heldBills'[1]) =
               FormOf(cart, customerName, customerPhone, discountAmount)
          /\ Tail(heldBills') = heldBills
          /\ cart' = << >>]_vars
  /\ [][Len(heldBills') < Len(heldBills) =>
          \E i \in 1..Len(heldBills) :
            /\ FormOf(cart', customerName', customerPhone', discountAmount') =
                 HeldForm(heldBills[i])
            /\ heldBills' = RemoveAt(heldBills, i)]_vars

\* the round trip of every bill held under a customer name
HoldRecallNamed ==
  /\ [][(Len(heldBills') > Len(heldBills) /\ customerName # "") =>
          /\ HeldForm(heldBills'[1]) =
               FormOf(cart, customerName, customerPhone, discountAmount)
          /\ Tail(heldBills') = heldBills
          /\ cart' = << >>]_vars
  /\ [][Len(heldBills') < Len(heldBills) =>
          \E i \in 1..Len(heldBills) :
            /\ FormOf(cart', customerName', customerPhone', discountAmount') =
                 HeldForm(heldBills[i])
            /\ heldBills' = RemoveAt(heldBills, i)]_vars

\* the place of a status on the way Pending -> Ready -> Completed
StatusRank(st) == CASE st = "Pending" -> 0 [] st = "Ready" -> 1 [] st = "Completed" -> 2

\* C23: a booking's status changes only along Pending -> Ready -> Completed:
\* under any sequence of Mark Ready, Complete, QR-scan, load-into-cart and
\* complete-sale actions every change of a status is a move to the next
\* status, so a booking is never Completed without having been Ready and never
\* moves from Completed or Ready back to an earlier status.
C23_StatusOrder ==
  [][\A b \in BookingIds :
       booking_status'[b] # booking_status[b] =>
         StatusRank(booking_status'[b]) = StatusRank(booking_status[b]) + 1]_vars

\* no status moves back
StatusNeverBack ==
  [][\A b \in BookingIds :
       StatusRank(booking_status'[b]) >= StatusRank(booking_status[b])]_vars

(* ============================ location claims ========================== *)
\* positions further apart than the threshold in latitude or in longitude
MovedBeyond(a, b, t) ==
  \/ Abs(a.lat - b.lat) * UnitsPerStep > t
  \/ Abs(a.lng - b.lng) > t

\* C24: the coordinate used for distance queries changes only when a new
\* position differs from the last used one by more than the threshold in
\* latitude or in longitude: under any sequence of watch-position,
\* manual-detect, IP-lookup and profile-load events a position within the
\* threshold of the last used one never replaces it and never makes the
\* nearby-pharmacy query go out with another position.
C24_Debounced ==
  [][userCoordinates # NULL =>
       /\ userCoordinates' # userCoordinates =>
            MovedBeyond(Val(userCoordinates), Val(userCoordinates'), UpdateThreshold)
       /\ nearby_call' # nearby_call =>
            MovedBeyond(Val(userCoordinates), Val(userCoordinates'), UpdateThreshold)]_vars

\* a position other than the one of the profile never replaces one within
\* the threshold
DeviceDebounced ==
  [][(userCoordinates # NULL /\ userCoordinates' # userCoordinates
        /\ userCoordinates' # profile) =>
       MovedBeyond(Val(userCoordinates), Val(userCoordinates'), UpdateThreshold)]_vars

(* ========================== verification claims ======================== *)
\* C30: a pharmacy's verification status moves only along unverified or
\* rejected -> pending_review -> verified or rejected: it becomes
\* pending_review only from unverified or rejected and only with a drug
\* license document uploaded, and it becomes verified or rejected only from
\* pending_review.
C30_StatusPath ==
  [][\A ph \in PharmacyIds :
       verification_status'[ph] # verification_status[ph] =>
         \/ /\ verification_status[ph] \in {"unverified", "rejected"}
            /\ verification_status'[ph] = "pending_review"
            /\ drug_license_url[ph]
         \/ /\ verification_status[ph] = "pending_review"
            /\ verification_status'[ph] \in Decisions]_vars

\* a shop is under review only with a drug license document on file
ReviewedWithDocument ==
  \A ph \in PharmacyIds :
    verification_status[ph] = "pending_review" => drug_license_url[ph]
====
